---- MODULE Spec2Model ----
(***************************************************************************)
(* Ingestion-to-grounded-answer pipeline of the RAG backend:               *)
(* checksum, chunker, ingestion service, retrieval service, hallucination  *)
(* guard, the two query orchestrators (RagService, RagChatService) and    *)
(* the ingestion-job service.                                              *)
(*                                                                         *)
(* Texts are sequences of one-character strings.  Python positions are     *)
(* 0-based; At and Slice translate them.  Similarity scores are kept as    *)
(* exact signed squared cosines (num/den), so comparisons are exact and    *)
(* floating-point rounding is not modelled.                                *)
(***************************************************************************)
EXTENDS Integers, Sequences, FiniteSets, TLC

VARIABLES files, documents, chunks, index, nextId, messages, jobs, workers, last

vars == <<files, documents, chunks, index, nextId, messages, jobs, workers, last>>

(***************************************************************************)
(* Configuration (app/config.py) scaled down, and the sizes of the inputs. *)
(***************************************************************************)
ChunkSize == 12
ChunkOverlap == 2
VectorSize == 2
MaxTopK == 2
MaxMessages == 2
MaxJobs == 1
MaxResults == 2

LookBack == 50
IdPrefixLen == 100
GetAllLimit == 100
MinContextLength == 10
ConfidenceThreshold == 1
OverlapNum == 3
OverlapDen == 10
QuestionPreviewLen == 50
ContextPreviewLen == 500
FallbackPreviewLen == 100
FallbackPreviewChunks == 2

\* An optional value (Optional[...], a keyword argument that may be absent).
None == <<>>
Some(v) == <<v>>
ValueOf(o) == o[1]

Min(a, b) == IF a < b THEN a ELSE b
Max(a, b) == IF a > b THEN a ELSE b
SetMax(S) == CHOOSE x \in S : \A y \in S : y <= x

(***************************************************************************)
(* Text helpers: Python str indexing, slicing, strip, split, lower, join.  *)
(***************************************************************************)
At(s, i) == s[i + 1]

Slice(s, a, b) == SubSeq(s, Min(a, Len(s)) + 1, Min(b, Len(s)))

Take(s, n) == Slice(s, 0, n)

Whitespace == {" ", "\t", "\n"}

RECURSIVE LStrip(_)
LStrip(s) == IF s # <<>> /\ Head(s) \in Whitespace THEN LStrip(Tail(s)) ELSE s

RECURSIVE RStrip(_)
RStrip(s) ==
    IF s # <<>> /\ s[Len(s)] \in Whitespace THEN RStrip(SubSeq(s, 1, Len(s) - 1)) ELSE s

Strip(s) == RStrip(LStrip(s))

UpperCase ==
    [c \in {"A", "B", "C", "D", "E", "F", "G", "H", "I", "J", "K", "L", "M",
            "N", "O", "P", "Q", "R", "S", "T", "U", "V", "W", "X", "Y", "Z"} |->
        CASE c = "A" -> "a" [] c = "B" -> "b" [] c = "C" -> "c" [] c = "D" -> "d"
          [] c = "E" -> "e" [] c = "F" -> "f" [] c = "G" -> "g" [] c = "H" -> "h"
          [] c = "I" -> "i" [] c = "J" -> "j" [] c = "K" -> "k" [] c = "L" -> "l"
          [] c = "M" -> "m" [] c = "N" -> "n" [] c = "O" -> "o" [] c = "P" -> "p"
          [] c = "Q" -> "q" [] c = "R" -> "r" [] c = "S" -> "s" [] c = "T" -> "t"
          [] c = "U" -> "u" [] c = "V" -> "v" [] c = "W" -> "w" [] c = "X" -> "x"
          [] c = "Y" -> "y" [] c = "Z" -> "z"]

LowerChar(c) == IF c \in DOMAIN UpperCase THEN UpperCase[c] ELSE c

Lower(s) == [i \in 1..Len(s) |-> LowerChar(s[i])]

\* str.split(): the set of maximal runs of non-whitespace characters.
WordStarts(s) ==
    {i \in 1..Len(s) : s[i] \notin Whitespace /\ (i = 1 \/ s[i - 1] \in Whitespace)}

WordEnd(s, i) ==
    CHOOSE j \in i..Len(s) :
        /\ \A k \in i..j : s[k] \notin Whitespace
        /\ (j = Len(s) \/ s[j + 1] \in Whitespace)

WordSet(s) == {SubSeq(s, i, WordEnd(s, i)) : i \in WordStarts(s)}

RECURSIVE Join(_, _)
Join(sep, parts) ==
    IF parts = <<>> THEN <<>>
    ELSE IF Len(parts) = 1 THEN parts[1]
    ELSE parts[1] \o sep \o Join(sep, Tail(parts))

RECURSIVE SeqMap(_, _)
SeqMap(F(_), s) == IF s = <<>> THEN <<>> ELSE <<F(Head(s))>> \o SeqMap(F, Tail(s))

RECURSIVE SeqFilter(_, _)
SeqFilter(P(_), s) ==
    IF s = <<>> THEN <<>>
    ELSE (IF P(Head(s)) THEN <<Head(s)>> ELSE <<>>) \o SeqFilter(P, Tail(s))

Range(s) == {s[i] : i \in 1..Len(s)}

(***************************************************************************)
(* The corpus: two source paths and the raw contents a file can hold.      *)
(***************************************************************************)
Paths == {"a.md", "b.md"}

ContentHello == <<"H", "e", "l", "l", "o", " ", "w", "o", "r", "l", "d", ".">>
ContentWords ==
    <<"o", "n", " ", "t", "h", "e", " ", "i", "s", " ", "a", "n", " ", "t", "o", " ", "x", "\n">>

Contents == {ContentHello, ContentWords}

(***************************************************************************)
(* utils/checksum.py                                                        *)
(***************************************************************************)
\* SHA-256 hex digest: a collision-free encoding of the content.
calculate_sha256(content) == <<"sha256", content>>

(***************************************************************************)
(* utils/text_extractor.py (contents without a front-matter block)          *)
(***************************************************************************)
extract_text_with_frontmatter(content) == Strip(content)

(***************************************************************************)
(* utils/chunker.py                                                         *)
(***************************************************************************)
SentenceEnd == {".", "!", "?"}

\* An identifier derived from the whole chunk text.
_generate_chunk_id_whole_content(content, doc_id, chunk_index) ==
    <<"uuid-of-sha256", doc_id, chunk_index, content>>

_generate_chunk_id(content, doc_id, chunk_index) ==
    <<"uuid-of-sha256", doc_id, chunk_index, Take(content, IdPrefixLen)>>

BreakPoint(content, start_idx, end_idx) ==
    LET search_start == Max(end_idx - LookBack, start_idx)
        top == Min(end_idx, Len(content)) - 1
        sent == {i \in (search_start + 1)..top : At(content, i) \in SentenceEnd}
        ws == {i \in (search_start + 1)..top : At(content, i) \in Whitespace}
    IN IF sent # {} THEN SetMax(sent) + 1
       ELSE IF ws # {} THEN SetMax(ws) + 1
       ELSE -1

\* A cut that also looks for a break when the chunk ends exactly at the end
\* of the content.
ChunkEnd_break_at_content_end(content, start_idx, chunk_size) ==
    LET end_idx == start_idx + chunk_size
        sentence_break == BreakPoint(content, start_idx, end_idx)
    IN IF end_idx <= Len(content)
       THEN (IF sentence_break # -1 /\ sentence_break > start_idx
             THEN sentence_break
             ELSE Min(end_idx, Len(content)))
       ELSE end_idx

ChunkEnd(content, start_idx, chunk_size) ==
    LET end_idx == start_idx + chunk_size
        sentence_break == BreakPoint(content, start_idx, end_idx)
    IN IF end_idx < Len(content)
       THEN (IF sentence_break # -1 /\ sentence_break > start_idx
             THEN sentence_break
             ELSE Min(end_idx, Len(content)))
       ELSE end_idx

\* A cursor that leaves a gap of the overlap after the chunk.
NextStart_skipping(end_idx, chunk_overlap) == end_idx + chunk_overlap

\* A cursor that goes back by the overlap without the clamp.
NextStart_unclamped(end_idx, chunk_overlap) == end_idx - chunk_overlap

NextStart(end_idx, chunk_overlap) == Max(end_idx - chunk_overlap, end_idx)

RECURSIVE ChunkLoop(_, _, _, _, _, _)
ChunkLoop(content, doc_id, start_idx, chunk_idx, chunk_size, chunk_overlap) ==
    IF start_idx >= Len(content) THEN <<>>
    ELSE LET end_idx == ChunkEnd(content, start_idx, chunk_size)
             chunk_content == Slice(content, start_idx, end_idx)
         IN <<[content |-> chunk_content,
               index |-> chunk_idx,
               id |-> _generate_chunk_id(chunk_content, doc_id, chunk_idx)]>>
            \o ChunkLoop(content, doc_id, NextStart(end_idx, chunk_overlap), chunk_idx + 1,
                         chunk_size, chunk_overlap)

\* DocumentChunker.__init__: an argument that is None or 0 gives the setting.
DocumentChunker(chunk_size, chunk_overlap) ==
    [chunk_size |-> IF chunk_size = 0 THEN ChunkSize ELSE chunk_size,
     chunk_overlap |-> IF chunk_overlap = 0 THEN ChunkOverlap ELSE chunk_overlap]

\* The module-level chunk_document with explicit sizes (0 standing for None).
chunk_document_sized(content, doc_id, chunk_size, chunk_overlap) ==
    LET self == DocumentChunker(chunk_size, chunk_overlap)
    IN IF content = <<>> THEN <<>>
       ELSE ChunkLoop(content, doc_id, 0, 0, self.chunk_size, self.chunk_overlap)

\* chunk_document(clean_content, str(document.id)) with the configured sizes.
chunk_document(content, doc_id) == chunk_document_sized(content, doc_id, 0, 0)

\* The inputs of the chunker: the corpus, the empty text, a text of two
\* words and two texts that agree on their first IdPrefixLen characters and
\* differ in the next one.
LongText(c) == [i \in 1..(IdPrefixLen + 1) |-> IF i <= IdPrefixLen THEN "x" ELSE c]
ChunkerContents ==
    Contents \cup {<<>>, <<"a", "b", " ", "c", "d">>, LongText("a"), LongText("b")}
ChunkerDocIds == {"doc-1", "doc-2"}
ChunkSizes == {0, 5, IdPrefixLen + 20}
ChunkOverlaps == {0, 1}

(***************************************************************************)
(* services/embedding_service.py: the embedding model is an opaque          *)
(* deterministic map from text to a vector of VectorSize numbers; blank     *)
(* text gives the zero vector.                                              *)
(***************************************************************************)
Vowels == {"a", "e", "i", "o", "u", "A", "E", "I", "O", "U"}

Feature(c) == IF c \in Vowels THEN 1 ELSE Min(2, VectorSize)

CountFeature(text, k) ==
    Cardinality({i \in 1..Len(text) : text[i] \notin Whitespace /\ Feature(text[i]) = k})

embed_text(text) ==
    IF Strip(text) = <<>> THEN [k \in 1..VectorSize |-> 0]
    ELSE [k \in 1..VectorSize |-> CountFeature(text, k)]

(***************************************************************************)
(* Relational store and identifiers                                         *)
(***************************************************************************)
\* BaseMixin.id: default=uuid.uuid4, a fresh identifier for every row.
uuid4(n) == <<"uuid4", n>>

\* A lookup that never finds the checksum.
find_by_checksum_none(docs, checksum) == {}

find_by_checksum(docs, checksum) ==
    IF \E d \in docs : d.checksum = checksum
    THEN {CHOOSE d \in docs : d.checksum = checksum}
    ELSE {}

ChunksOf(chs, doc_id) == SeqFilter(LAMBDA c : c.document_id = doc_id, chs)

(***************************************************************************)
(* services/qdrant_service.py: the vector index, one point per identifier.  *)
(***************************************************************************)
\* client.upsert: insert the point, or replace the point that has the same identifier.
upsert_point(idx, chunk_id, vector, payload) ==
    LET point == [id |-> chunk_id, vector |-> vector, payload |-> payload]
    IN IF \E i \in 1..Len(idx) : idx[i].id = chunk_id
       THEN [i \in 1..Len(idx) |-> IF idx[i].id = chunk_id THEN point ELSE idx[i]]
       ELSE Append(idx, point)

\* json.dumps / json.loads of the stored vector column.
json_dumps(vector) == <<"json", vector>>
json_loads(text) == text[2]

(***************************************************************************)
(* services/ingestion_service.py                                            *)
(*                                                                          *)
(* A store is the relational tables, the index and the id source.           *)
(* embedFail = i > 0: the embedding provider raises on the i-th chunk.      *)
(* upFail: chunk indices whose index upsert raises.                         *)
(***************************************************************************)
Store(docs, chs, idx, nid) ==
    [documents |-> docs, chunks |-> chs, index |-> idx, nextId |-> nid]

\* Creation that overwrites the row of an already used source path.
create_document_overwrite(st, source_path, checksum, content) ==
    LET old == {d \in st.documents : d.source_path = source_path}
        doc == [id |-> IF old = {} THEN uuid4(st.nextId) ELSE (CHOOSE d \in old : TRUE).id,
                source_path |-> source_path, checksum |-> checksum, content |-> content]
    IN [raised |-> FALSE,
        st |-> [st EXCEPT !.documents = (@ \ old) \cup {doc}, !.nextId = @ + 1],
        document |-> doc]

create_document(st, source_path, checksum, content) ==
    IF \E d \in st.documents : d.source_path = source_path
    THEN [raised |-> TRUE, st |-> st, document |-> <<>>]
    ELSE LET doc == [id |-> uuid4(st.nextId), source_path |-> source_path,
                     checksum |-> checksum, content |-> content]
         IN [raised |-> FALSE,
             st |-> [st EXCEPT !.documents = @ \cup {doc}, !.nextId = @ + 1],
             document |-> doc]

create_chunk(st, document_id, chunk_index, chunk_text, chunk_hash, vector) ==
    [st EXCEPT !.chunks = Append(@, [id |-> uuid4(st.nextId),
                                      document_id |-> document_id,
                                      chunk_index |-> chunk_index,
                                      chunk_text |-> chunk_text,
                                      chunk_hash |-> chunk_hash,
                                      vector |-> json_dumps(vector)]),
               !.nextId = @ + 1]

\* The chunk loop leaving the document at the first failed index upsert.
RECURSIVE StoreChunks_stop_on_upsert_failure(_, _, _, _, _, _, _)
StoreChunks_stop_on_upsert_failure(st, doc, cs, i, embedFail, upFail, made) ==
    IF i > Len(cs) THEN [raised |-> FALSE, st |-> st, chunk_models |-> made]
    ELSE IF embedFail = i THEN [raised |-> TRUE, st |-> st, chunk_models |-> made]
    ELSE LET chunk == cs[i]
             embedding == embed_text(chunk.content)
             st1 == create_chunk(st, doc.id, chunk.index, chunk.content, chunk.id, embedding)
             payload == [document_id |-> doc.id, source_path |-> doc.source_path,
                         chunk_index |-> chunk.index, content |-> chunk.content]
         IN IF chunk.index \in upFail
            THEN [raised |-> FALSE, st |-> st1,
                  chunk_models |-> Append(made, st1.chunks[Len(st1.chunks)])]
            ELSE StoreChunks_stop_on_upsert_failure(
                    [st1 EXCEPT !.index = upsert_point(@, chunk.id, embedding, payload)],
                    doc, cs, i + 1, embedFail, upFail,
                    Append(made, st1.chunks[Len(st1.chunks)]))

RECURSIVE StoreChunks(_, _, _, _, _, _, _)
StoreChunks(st, doc, cs, i, embedFail, upFail, made) ==
    IF i > Len(cs) THEN [raised |-> FALSE, st |-> st, chunk_models |-> made]
    ELSE IF embedFail = i THEN [raised |-> TRUE, st |-> st, chunk_models |-> made]
    ELSE LET chunk == cs[i]
             embedding == embed_text(chunk.content)
             st1 == create_chunk(st, doc.id, chunk.index, chunk.content, chunk.id, embedding)
             payload == [document_id |-> doc.id, source_path |-> doc.source_path,
                         chunk_index |-> chunk.index, content |-> chunk.content]
             st2 == IF chunk.index \in upFail THEN st1
                    ELSE [st1 EXCEPT !.index = upsert_point(@, chunk.id, embedding, payload)]
         IN StoreChunks(st2, doc, cs, i + 1, embedFail, upFail,
                        Append(made, st1.chunks[Len(st1.chunks)]))

\* A call whose short-circuit asks for a Document of the same checksum at the
\* same source path.
process_document_keyed_by_path(st, file_path, content, embedFail, upFail) ==
    LET checksum == calculate_sha256(content)
        existing_doc == find_by_checksum({d \in st.documents : d.source_path = file_path},
                                         checksum)
    IN IF existing_doc # {}
       THEN [raised |-> FALSE, error |-> "none", st |-> st, chunk_models |-> <<>>,
             skipped |-> TRUE, upsert_failed |-> {}]
       ELSE LET clean_content == extract_text_with_frontmatter(content)
                created == create_document(st, file_path, checksum, clean_content)
            IN IF created.raised
               THEN [raised |-> TRUE, error |-> "IntegrityError", st |-> st,
                     chunk_models |-> <<>>, skipped |-> FALSE, upsert_failed |-> {}]
               ELSE LET cs == chunk_document(clean_content, created.document.id)
                        r == StoreChunks(created.st, created.document, cs, 1,
                                         embedFail, upFail, <<>>)
                    IN [raised |-> r.raised,
                        error |-> IF r.raised THEN "embedding" ELSE "none",
                        st |-> r.st, chunk_models |-> r.chunk_models,
                        skipped |-> FALSE, upsert_failed |-> {}]

\* A call that goes on storing the chunks of an existing Document whose chunk
\* rows are not all there.
process_document_resume(st, file_path, content, embedFail, upFail) ==
    LET checksum == calculate_sha256(content)
        existing_doc == find_by_checksum(st.documents, checksum)
    IN IF existing_doc # {}
       THEN LET doc == CHOOSE d \in existing_doc : TRUE
                cs == chunk_document(doc.content, doc.id)
                have == Len(ChunksOf(st.chunks, doc.id))
                r == StoreChunks(st, doc, cs, have + 1, embedFail, upFail, <<>>)
            IN [raised |-> r.raised,
                error |-> IF r.raised THEN "embedding" ELSE "none",
                st |-> r.st, chunk_models |-> r.chunk_models,
                skipped |-> have >= Len(cs), upsert_failed |-> {}]
       ELSE LET clean_content == extract_text_with_frontmatter(content)
                created == create_document(st, file_path, checksum, clean_content)
            IN IF created.raised
               THEN [raised |-> TRUE, error |-> "IntegrityError", st |-> st,
                     chunk_models |-> <<>>, skipped |-> FALSE, upsert_failed |-> {}]
               ELSE LET cs == chunk_document(clean_content, created.document.id)
                        r == StoreChunks(created.st, created.document, cs, 1,
                                         embedFail, upFail, <<>>)
                    IN [raised |-> r.raised,
                        error |-> IF r.raised THEN "embedding" ELSE "none",
                        st |-> r.st, chunk_models |-> r.chunk_models,
                        skipped |-> FALSE, upsert_failed |-> {}]

process_document(st, file_path, content, embedFail, upFail) ==
    LET checksum == calculate_sha256(content)
        existing_doc == find_by_checksum(st.documents, checksum)
    IN IF existing_doc # {}
       THEN [raised |-> FALSE, error |-> "none", st |-> st, chunk_models |-> <<>>,
             skipped |-> TRUE, upsert_failed |-> {}]
       ELSE LET clean_content == extract_text_with_frontmatter(content)
                created == create_document(st, file_path, checksum, clean_content)
            IN IF created.raised
               THEN [raised |-> TRUE, error |-> "IntegrityError", st |-> st,
                     chunk_models |-> <<>>, skipped |-> FALSE, upsert_failed |-> {}]
               ELSE LET cs == chunk_document(clean_content, created.document.id)
                        r == StoreChunks(created.st, created.document, cs, 1,
                                         embedFail, upFail, <<>>)
                    IN [raised |-> r.raised,
                        error |-> IF r.raised THEN "embedding" ELSE "none",
                        st |-> r.st,
                        chunk_models |-> r.chunk_models, skipped |-> FALSE,
                        upsert_failed |-> {r.chunk_models[i].chunk_index :
                                              i \in 1..Len(r.chunk_models)} \cap upFail]

NoResults == [processed_documents |-> 0, created_chunks |-> 0,
              skipped_documents |-> 0, errors |-> <<>>]

\* The file loop ending the run at the first file that raises.
RECURSIVE PipelineLoop_abort_on_error(_, _, _, _, _, _)
PipelineLoop_abort_on_error(st, fs, order, embedFail, upFail, results) ==
    IF order = <<>> THEN [st |-> st, results |-> results]
    ELSE LET file_path == Head(order)
             r == process_document(st, file_path, fs[file_path],
                                   embedFail[file_path], upFail)
         IN IF r.raised
            THEN [st |-> r.st, results |-> [results EXCEPT !.errors = Append(@, file_path)]]
            ELSE PipelineLoop_abort_on_error(r.st, fs, Tail(order), embedFail, upFail,
                    [results EXCEPT !.processed_documents = @ + 1,
                                    !.created_chunks = @ + Len(r.chunk_models)])

RECURSIVE PipelineLoop(_, _, _, _, _, _)
PipelineLoop(st, fs, order, embedFail, upFail, results) ==
    IF order = <<>> THEN [st |-> st, results |-> results]
    ELSE LET file_path == Head(order)
             r == process_document(st, file_path, fs[file_path],
                                   embedFail[file_path], upFail)
             res == IF r.raised
                    THEN [results EXCEPT !.errors = Append(@, file_path)]
                    ELSE [results EXCEPT !.processed_documents = @ + 1,
                                         !.created_chunks = @ + Len(r.chunk_models)]
         IN PipelineLoop(r.st, fs, Tail(order), embedFail, upFail, res)

run_ingestion_pipeline(st, fs, order, embedFail, upFail) ==
    PipelineLoop(st, fs, order, embedFail, upFail, NoResults)

RECURSIVE IncrementalLoop(_, _, _, _, _, _)
IncrementalLoop(st, fs, order, embedFail, upFail, results) ==
    IF order = <<>> THEN [st |-> st, results |-> results]
    ELSE LET file_path == Head(order)
             checksum == calculate_sha256(fs[file_path])
             existing_doc == find_by_checksum(st.documents, checksum)
             r == process_document(st, file_path, fs[file_path],
                                   embedFail[file_path], upFail)
         IN IF existing_doc # {}
            THEN IncrementalLoop(st, fs, Tail(order), embedFail, upFail,
                                 [results EXCEPT !.skipped_documents = @ + 1])
            ELSE IncrementalLoop(r.st, fs, Tail(order), embedFail, upFail,
                    IF r.raised
                    THEN [results EXCEPT !.errors = Append(@, file_path)]
                    ELSE [results EXCEPT !.processed_documents = @ + 1,
                                         !.created_chunks = @ + Len(r.chunk_models)])

run_incremental_ingestion(st, fs, order, embedFail, upFail) ==
    IncrementalLoop(st, fs, order, embedFail, upFail, NoResults)

\* scan_documents_directory: the files of the directory in the order rglob yields them.
ScanOrders == {o \in [1..Cardinality(Paths) -> Paths] : Range(o) = Paths}

IdleWorker == [pc |-> "idle", document |-> None, i |-> 0]

CurrentStore == Store(documents, chunks, index, nextId)

SetStore(st) ==
    /\ documents' = st.documents
    /\ chunks' = st.chunks
    /\ index' = st.index
    /\ nextId' = st.nextId

\* The largest number of chunks a file of the corpus yields.
MaxChunks ==
    SetMax({Len(chunk_document(extract_text_with_frontmatter(c), <<>>)) : c \in Contents})

EmbedFailures == 0..MaxChunks
UpsertFailures == SUBSET (0..(MaxChunks - 1))


(***************************************************************************)
(* Similarity scores.  A score is the cosine of the angle between the       *)
(* query and a stored vector, kept exactly as num/den = sign(dot)*dot^2 /   *)
(* (|q|^2 * |v|^2); thresholds are given in tenths.                         *)
(***************************************************************************)
RECURSIVE DotUpTo(_, _, _)
DotUpTo(a, b, k) == IF k = 0 THEN 0 ELSE a[k] * b[k] + DotUpTo(a, b, k - 1)

Dot(a, b) == DotUpTo(a, b, Min(Len(a), Len(b)))

Abs(x) == IF x < 0 THEN -x ELSE x

ZeroScore == [num |-> 0, den |-> 1]

Cosine(q, v) ==
    IF Dot(q, q) = 0 \/ Dot(v, v) = 0 THEN ZeroScore
    ELSE [num |-> Dot(q, v) * Abs(Dot(q, v)), den |-> Dot(q, q) * Dot(v, v)]

ScoreGE(s, t) == s.num * 100 >= t * t * s.den

ScoreLT(s, t) == ~ScoreGE(s, t)

ScoreGreater(s1, s2) == s1.num * s2.den > s2.num * s1.den

\* list.sort(key=score, reverse=True): descending and stable.
\* Entry j comes before entry i: a higher score, or the same score and an
\* earlier place in the list.
Precedes(results, j, i) ==
    \/ ScoreGreater(results[j].score, results[i].score)
    \/ ~ScoreGreater(results[i].score, results[j].score) /\ j < i

SortDesc(results) ==
    LET n == Len(results)
        rank == [i \in 1..n |-> Cardinality({j \in 1..n : Precedes(results, j, i)}) + 1]
    IN [p \in 1..n |-> results[CHOOSE i \in 1..n : rank[i] = p]]

(***************************************************************************)
(* services/qdrant_service.py: search_similar                               *)
(***************************************************************************)
\* client.search with the Cosine metric: the limit nearest points, best first.
\* An error of the client is caught and an empty list is returned.
search_similar(idx, query_vector, limit, searchRaises) ==
    IF searchRaises THEN <<>>
    ELSE LET scored == [i \in 1..Len(idx) |->
                          [chunk_id |-> idx[i].id, score |-> Cosine(query_vector, idx[i].vector)]]
         IN Take(SortDesc(scored), limit)

(***************************************************************************)
(* services/chunk_service.py, database/chunk_repository.py                  *)
(***************************************************************************)
get_all_chunks(chs, skip, limit) == Slice(chs, skip, skip + limit)

get_all(chs) == get_all_chunks(chs, 0, GetAllLimit)

get_chunk_by_id(chs, chunk_id) ==
    LET hits == SeqFilter(LAMBDA c : c.id = chunk_id, chs)
    IN IF hits = <<>> THEN <<>> ELSE <<Head(hits)>>

(***************************************************************************)
(* services/retrieval_service.py                                            *)
(***************************************************************************)
\* The loop over the rows, in the order of the rows; the list is taken by
\* halves to keep the evaluation shallow.
RECURSIVE ScanChunks(_, _)
ScanChunks(all_chunks, query_vector) ==
    IF all_chunks = <<>> THEN <<>>
    ELSE IF Len(all_chunks) = 1
    THEN LET chunk == Head(all_chunks)
             chunk_vector == json_loads(chunk.vector)
         IN IF Dot(query_vector, query_vector) # 0 /\ Dot(chunk_vector, chunk_vector) # 0
            THEN <<[id |-> chunk.id, score |-> Cosine(query_vector, chunk_vector)]>>
            ELSE <<>>
    ELSE LET half == Len(all_chunks) \div 2
         IN ScanChunks(SubSeq(all_chunks, 1, half), query_vector)
            \o ScanChunks(SubSeq(all_chunks, half + 1, Len(all_chunks)), query_vector)

\* A scan that truncates without sorting.
_perform_database_similarity_search_unsorted(chs, query_vector, top_k) ==
    Take(ScanChunks(get_all(chs), query_vector), top_k)

_perform_database_similarity_search(chs, query_vector, top_k) ==
    Take(SortDesc(ScanChunks(get_all(chs), query_vector)), top_k)

\* The inputs of the scan taken alone: a store of n Chunk rows whose stored
\* vectors are all CoolVector except the row at position hot (0: none), and
\* the query vectors.
HotVector == [k \in 1..VectorSize |-> IF k = 1 THEN 1 ELSE 0]
CoolVector == [k \in 1..VectorSize |-> IF k = 1 THEN 0 ELSE 1]
ScanStore(n, hot) ==
    [i \in 1..n |->
        [id |-> uuid4(i), document_id |-> uuid4(0), chunk_index |-> i - 1,
         chunk_text |-> <<"x">>, chunk_hash |-> <<"hash", i>>,
         vector |-> json_dumps(IF i = hot THEN HotVector ELSE CoolVector)]]
ScanStoreSizes == {0, 1, 2, 3, GetAllLimit, GetAllLimit + 1}
ScanStoreShapes ==
    {sh \in [n : ScanStoreSizes, hot : 0..(GetAllLimit + 1)] : sh.hot \in {0, 1, sh.n}}
ScanQueries ==
    {HotVector, CoolVector, [k \in 1..VectorSize |-> 1], [k \in 1..VectorSize |-> 0]}

FormatResults(search_results) ==
    [i \in 1..Len(search_results) |->
        [id |-> search_results[i].chunk_id, score |-> search_results[i].score]]

perform_vector_search(st, query_vector, top_k, searchRaises) ==
    LET formatted_results ==
            FormatResults(search_similar(st.index, query_vector, top_k, searchRaises))
    IN IF formatted_results # <<>> THEN formatted_results
       ELSE _perform_database_similarity_search(st.chunks, query_vector, top_k)

RECURSIVE fetch_chunks_by_ids(_, _)
fetch_chunks_by_ids(chs, chunk_ids) ==
    IF chunk_ids = <<>> THEN <<>>
    ELSE get_chunk_by_id(chs, Head(chunk_ids)) \o fetch_chunks_by_ids(chs, Tail(chunk_ids))

\* A gate that only treats the empty candidate list as low confidence.
has_low_confidence_results_empty_only(results, threshold) == results = <<>>

has_low_confidence_results(results, threshold) ==
    IF results = <<>> THEN TRUE
    ELSE ~\E i \in 1..Len(results) : ScoreGE(results[i].score, threshold)

\* fault: "embedding" - the embedding provider raises; "database" - the
\* relational store raises when the chunks are read; "none" - no error.
retrieve_and_rank_chunks(st, question, top_k, similarity_threshold, searchRaises, fault) ==
    LET query_vector == embed_text(question)
        search_results == perform_vector_search(st, query_vector, top_k, searchRaises)
        chunk_ids == [i \in 1..Len(search_results) |-> search_results[i].id]
    IN IF fault # "none"
       THEN [raised |-> TRUE, search_results |-> <<>>, chunks |-> <<>>]
       ELSE IF has_low_confidence_results(search_results, similarity_threshold)
            THEN [raised |-> FALSE, search_results |-> search_results, chunks |-> <<>>]
            ELSE [raised |-> FALSE, search_results |-> search_results,
                  chunks |-> fetch_chunks_by_ids(st.chunks, chunk_ids)]

(***************************************************************************)
(* populate_qdrant.py: re-index the stored chunks under their row ids.      *)
(***************************************************************************)
RECURSIVE PopulateLoop(_, _, _, _)
PopulateLoop(st, all_chunks, i, failed) ==
    IF i > Len(all_chunks) THEN st
    ELSE LET chunk == all_chunks[i]
             doc == CHOOSE d \in st.documents : d.id = chunk.document_id
             payload == [document_id |-> chunk.document_id, source_path |-> doc.source_path,
                         chunk_index |-> chunk.chunk_index, content |-> chunk.chunk_text]
             st1 == IF i \in failed THEN st
                    ELSE [st EXCEPT !.index =
                            upsert_point(@, chunk.id, json_loads(chunk.vector), payload)]
         IN PopulateLoop(st1, all_chunks, i + 1, failed)

populate_qdrant_from_db(st, failed) == PopulateLoop(st, get_all(st.chunks), 1, failed)


(***************************************************************************)
(* Fixed texts of the guard and the orchestrators                           *)
(***************************************************************************)
InsufficientContextText ==
    <<"I", " ", "d", "o", "n", "'", "t", " ", "h", "a", "v", "e", " ", "s", "u", "f", "f", "i",
      "c", "i", "e", "n", "t", " ", "i", "n", "f", "o", "r", "m", "a", "t", "i", "o", "n", " ",
      "i", "n", " ", "t", "h", "e", " ", "b", "o", "o", "k", " ", "c", "o", "n", "t", "e", "n",
      "t", " ", "t", "o", " ", "a", "n", "s", "w", "e", "r", " ", "t", "h", "i", "s", " ", "q",
      "u", "e", "s", "t", "i", "o", "n", ".">>

LowConfidenceText ==
    <<"T", "h", "e", " ", "r", "e", "t", "r", "i", "e", "v", "e", "d", " ", "i", "n", "f", "o",
      "r", "m", "a", "t", "i", "o", "n", " ", "d", "o", "e", "s", "n", "'", "t", " ", "h", "a",
      "v", "e", " ", "s", "u", "f", "f", "i", "c", "i", "e", "n", "t", " ", "c", "o", "n", "f",
      "i", "d", "e", "n", "c", "e", " ", "t", "o", " ", "p", "r", "o", "v", "i", "d", "e", " ",
      "a", " ", "r", "e", "l", "i", "a", "b", "l", "e", " ", "a", "n", "s", "w", "e", "r", ".">>

CannotAnswerText ==
    <<"I", " ", "c", "a", "n", "n", "o", "t", " ", "p", "r", "o", "v", "i", "d", "e", " ", "a",
      "n", " ", "a", "n", "s", "w", "e", "r", " ", "b", "a", "s", "e", "d", " ", "o", "n", " ",
      "t", "h", "e", " ", "a", "v", "a", "i", "l", "a", "b", "l", "e", " ", "b", "o", "o", "k",
      " ", "c", "o", "n", "t", "e", "n", "t", ".">>

ChatUngroundedText ==
    <<"I", " ", "f", "o", "u", "n", "d", " ", "r", "e", "l", "e", "v", "a", "n", "t", " ", "i",
      "n", "f", "o", "r", "m", "a", "t", "i", "o", "n", " ", "b", "u", "t", " ", "c", "a", "n",
      "n", "o", "t", " ", "g", "e", "n", "e", "r", "a", "t", "e", " ", "a", " ", "p", "r", "o",
      "p", "e", "r", "l", "y", " ", "g", "r", "o", "u", "n", "d", "e", "d", " ", "r", "e", "s",
      "p", "o", "n", "s", "e", ".">>

ChatRetrievalErrorText ==
    <<"S", "o", "r", "r", "y", ",", " ", "I", "'", "m", " ", "h", "a", "v", "i", "n", "g", " ",
      "t", "r", "o", "u", "b", "l", "e", " ", "a", "c", "c", "e", "s", "s", "i", "n", "g", " ",
      "t", "h", "e", " ", "d", "o", "c", "u", "m", "e", "n", "t", " ", "r", "e", "p", "o", "s",
      "i", "t", "o", "r", "y", " ", "r", "i", "g", "h", "t", " ", "n", "o", "w", ".">>

AnswerIntro ==
    <<"B", "a", "s", "e", "d", " ", "o", "n", " ", "t", "h", "e", " ", "p", "r", "o", "v", "i",
      "d", "e", "d", " ", "c", "o", "n", "t", "e", "x", "t", ",", " ", "h", "e", "r", "e", " ",
      "i", "s", " ", "a", "n", " ", "a", "n", "s", "w", "e", "r", " ", "t", "o", " ", "y", "o",
      "u", "r", " ", "q", "u", "e", "s", "t", "i", "o", "n", " ", "'">>

AnswerMiddle ==
    <<".", ".", ".", "'", ":", "\n", "\n">>

Ellipsis ==
    <<".", ".", ".">>

ChatFallbackIntro ==
    <<"B", "a", "s", "e", "d", " ", "o", "n", " ", "t", "h", "e", " ", "b", "o", "o", "k", " ",
      "c", "o", "n", "t", "e", "n", "t", ":", " ">>

(***************************************************************************)
(* utils/hallucination_guard.py                                             *)
(***************************************************************************)
is_context_insufficient(context) ==
    IF context = <<>> THEN TRUE
    ELSE Len(Strip(context)) < MinContextLength

\* A grounding test that wants strictly more than 30% of the answer words.
is_answer_properly_grounded_strict(answer, context) ==
    IF answer = <<>> \/ context = <<>> THEN FALSE
    ELSE LET answer_words == WordSet(Lower(answer))
             context_words == WordSet(Lower(context))
             common_words == answer_words \cap context_words
         IN IF answer_words = {} THEN FALSE
            ELSE Cardinality(common_words) * OverlapDen > OverlapNum * Cardinality(answer_words)

is_answer_properly_grounded(answer, context) ==
    IF answer = <<>> \/ context = <<>> THEN FALSE
    ELSE LET answer_words == WordSet(Lower(answer))
             context_words == WordSet(Lower(context))
             common_words == answer_words \cap context_words
         IN IF answer_words = {} THEN FALSE
            ELSE Cardinality(common_words) * OverlapDen >= OverlapNum * Cardinality(answer_words)

\* The score the guard reads from a result: result.get('score', 0) of a
\* dictionary, 0 for a Chunk object.  Scores and thresholds are in tenths.
ResultScore(result) ==
    IF result.kind = "dict" /\ result.score # None THEN ValueOf(result.score) ELSE 0

\* HallucinationGuard.has_low_confidence_results; threshold None gives the
\* configured similarity threshold.
guard_has_low_confidence_results(results, threshold) ==
    LET t == IF threshold = None THEN ConfidenceThreshold ELSE ValueOf(threshold)
    IN IF results = <<>> THEN TRUE
       ELSE ~\E i \in 1..Len(results) : ResultScore(results[i]) >= t

should_refuse_to_answer(context, results, threshold) ==
    LET t == IF threshold = None THEN Some(ConfidenceThreshold) ELSE threshold
    IN IF is_context_insufficient(context)
       THEN [should_refuse |-> TRUE, reason |-> "insufficient_context"]
       ELSE IF results # <<>> /\ guard_has_low_confidence_results(results, t)
       THEN [should_refuse |-> TRUE, reason |-> "low_confidence"]
       ELSE [should_refuse |-> FALSE, reason |-> ""]

validate_response_against_context(response, context, retrieval_results) ==
    LET is_grounded == is_answer_properly_grounded(response, context)
        is_insufficient_context == is_context_insufficient(context)
        has_low_confidence ==
            IF retrieval_results # <<>>
            THEN guard_has_low_confidence_results(retrieval_results, None)
            ELSE FALSE
        refusal == should_refuse_to_answer(context, retrieval_results, None)
    IN [is_grounded |-> is_grounded,
        has_sufficient_context |-> ~is_insufficient_context,
        has_high_confidence_results |-> ~has_low_confidence,
        should_refuse_to_answer |-> refusal.should_refuse,
        refusal_reason |-> refusal.reason,
        validation_passed |-> is_grounded /\ ~refusal.should_refuse]

\* The inputs of the guard: contexts (None and "" are both the empty text),
\* result lists of dictionaries with or without a score and Chunk objects,
\* thresholds, responses.
GuardContexts == {<<>>, <<" ", "a", " ">>, ContentHello, ContentWords}
GuardResultItems ==
    {[kind |-> "dict", score |-> Some(v)] : v \in {0, 3, 8}}
    \cup {[kind |-> "dict", score |-> None], [kind |-> "chunk", score |-> None]}
GuardResults == UNION {[1..n -> GuardResultItems] : n \in 0..MaxResults}
GuardThresholds == {None, Some(5)}
GuardResponses == {<<>>, <<"H", "e", "l", "l", "o">>, <<"z", "z">>}

\* Answers and contexts of the grounding test, written word by word: the
\* empty and the blank text, mixed case, a repeated word, and word counts
\* that put the overlap under, on and over 30%.
Words(ws) == Join(<<" ">>, [i \in 1..Len(ws) |-> <<ws[i]>>])
GroundingAnswers ==
    {<<>>, <<" ", "\n">>, ContentHello,
     Words(<<"A", "a">>),
     Words(<<"a", "b", "c", "d">>),
     Words(<<"a", "b", "c", "d", "e", "f", "g", "h", "i", "j">>)}
GroundingContexts ==
    {<<>>, <<" ", "\n">>, ContentHello, <<"h", "e", "l", "l", "o">>,
     Words(<<"a">>), Words(<<"B", "A">>), Words(<<"c", "b", "a", "z">>),
     Words(<<"a", "b", "c", "d", "e", "f", "g", "h", "i", "j">>)}

generate_refusal_response(reason) ==
    IF reason = "insufficient_context" THEN InsufficientContextText
    ELSE IF reason = "low_confidence" THEN LowConfidenceText
    ELSE CannotAnswerText

(***************************************************************************)
(* services/citation_service.py, utils/citation_formatter.py,               *)
(* services/llm_service.py                                                  *)
(***************************************************************************)
\* Rows written by ingestion carry no chunk_metadata, so the defaults apply.
format_citation(source_path, heading, chunk_index) ==
    <<"[Source: ", source_path, ", Heading: ", heading, ", Chunk: ", chunk_index, "]">>

build_context_with_citations(retrieved) ==
    [context |-> Join(<<"\n", "\n">>, [i \in 1..Len(retrieved) |-> retrieved[i].chunk_text]),
     citations |-> [i \in 1..Len(retrieved) |-> format_citation("unknown", "unknown", -1)]]

Snippet(content, n) == IF Len(content) > n THEN Take(content, n) \o Ellipsis ELSE content

format_citations_from_chunks(context_chunks) ==
    [i \in 1..Len(context_chunks) |->
        [source_path |-> context_chunks[i].metadata.source_path,
         title |-> context_chunks[i].metadata.title,
         chunk_index |-> context_chunks[i].metadata.chunk_index,
         snippet |-> Snippet(context_chunks[i].content, 100)]]

\* generate_answer_with_context: llmAnswer is the text the provider returns.
generate_answer_with_context(context_chunks, llmAnswer) ==
    [answer |-> llmAnswer,
     full_context |-> Join(<<"\n", "\n">>,
                           [i \in 1..Len(context_chunks) |-> context_chunks[i].content]),
     citations |-> [i \in 1..Len(context_chunks) |->
        [source_path |-> context_chunks[i].metadata.source_path,
         title |-> context_chunks[i].metadata.title,
         chunk_index |-> context_chunks[i].metadata.chunk_index,
         snippet |-> Snippet(context_chunks[i].content, 200)]]]

\* The inputs of the citation formatters: lists of chunk dictionaries whose
\* content is short or one character longer than the snippet of 100.
CitationChunkItems ==
    {[content |-> c,
      metadata |-> [source_path |-> p, title |-> <<"T">>, chunk_index |-> k]] :
        c \in {<<>>, ContentHello, LongText("a")}, p \in Paths, k \in {0, 1}}
CitationChunkLists == UNION {[1..n -> CitationChunkItems] : n \in 0..MaxResults}

(***************************************************************************)
(* services/rag_chat_service.py                                             *)
(*                                                                          *)
(* llm.raises: the answer service raises; otherwise llm.text is its answer. *)
(* The result also records what the handler did on the way: the context it  *)
(* assembled and whether the answer service was called.                     *)
(***************************************************************************)
ContextChunks(retrieved_chunks) ==
    [i \in 1..Len(retrieved_chunks) |->
        [content |-> retrieved_chunks[i].chunk_text,
         metadata |-> [source_path |-> <<>>, title |-> <<>>,
                       chunk_index |-> retrieved_chunks[i].chunk_index]]]

ChatFallbackText(context_chunks) ==
    ChatFallbackIntro
    \o Join(<<" ">>, [i \in 1..Min(FallbackPreviewChunks, Len(context_chunks)) |->
                        Take(context_chunks[i].content, FallbackPreviewLen)])
    \o Ellipsis

\* The handler without its test for an empty retrieval result.
process_chat_query_no_short_circuit(st, message, top_k, similarity_threshold, searchRaises, fault, llm) ==
    LET r == retrieve_and_rank_chunks(st, message, top_k, similarity_threshold,
                                      searchRaises, fault)
        context_chunks == ContextChunks(r.chunks)
        g == generate_answer_with_context(context_chunks, llm.text)
        response_text == IF llm.raises THEN ChatFallbackText(context_chunks) ELSE g.answer
        citations == IF llm.raises THEN format_citations_from_chunks(context_chunks)
                     ELSE g.citations
        grounding_context == Join(<<" ">>, [i \in 1..Len(context_chunks) |->
                                              context_chunks[i].content])
        grounded == is_answer_properly_grounded(response_text, grounding_context)
    IN IF r.raised
       THEN [op |-> "process_chat_query", raised |-> FALSE, error |-> TRUE,
             answer |-> ChatRetrievalErrorText, citations |-> <<>>,
             retrieved |-> 0, generation_called |-> FALSE]
       ELSE [op |-> "process_chat_query", raised |-> FALSE, error |-> FALSE,
             answer |-> IF grounded THEN response_text ELSE ChatUngroundedText,
             citations |-> IF grounded THEN citations ELSE <<>>,
             retrieved |-> Len(r.chunks), generation_called |-> TRUE,
             context |-> g.full_context, candidate |-> response_text,
             grounding_context |-> grounding_context]

process_chat_query(st, message, top_k, similarity_threshold, searchRaises, fault, llm) ==
    LET r == retrieve_and_rank_chunks(st, message, top_k, similarity_threshold,
                                      searchRaises, fault)
        context_chunks == ContextChunks(r.chunks)
        g == generate_answer_with_context(context_chunks, llm.text)
        response_text == IF llm.raises THEN ChatFallbackText(context_chunks) ELSE g.answer
        citations == IF llm.raises THEN format_citations_from_chunks(context_chunks)
                     ELSE g.citations
        grounding_context == Join(<<" ">>, [i \in 1..Len(context_chunks) |->
                                              context_chunks[i].content])
        grounded == is_answer_properly_grounded(response_text, grounding_context)
    IN IF r.raised
       THEN [op |-> "process_chat_query", raised |-> FALSE, error |-> TRUE,
             answer |-> ChatRetrievalErrorText, citations |-> <<>>,
             retrieved |-> 0, generation_called |-> FALSE]
       ELSE IF r.chunks = <<>>
       THEN [op |-> "process_chat_query", raised |-> FALSE, error |-> FALSE,
             answer |-> InsufficientContextText, citations |-> <<>>,
             retrieved |-> 0, generation_called |-> FALSE]
       ELSE [op |-> "process_chat_query", raised |-> FALSE, error |-> FALSE,
             answer |-> IF grounded THEN response_text ELSE ChatUngroundedText,
             citations |-> IF grounded THEN citations ELSE <<>>,
             retrieved |-> Len(r.chunks), generation_called |-> TRUE,
             context |-> g.full_context, candidate |-> response_text,
             grounding_context |-> grounding_context]

(***************************************************************************)
(* services/rag_service.py                                                  *)
(***************************************************************************)
\* RetrievalService.retrieve_chunks is called by process_query and is not
\* part of the sources.  It is taken from the retrieval contract: it raises,
\* or it applies the confidence gate and returns the chunk rows of the
\* candidates that reach the threshold, best first.  Whether a returned chunk
\* carries its similarity score as metadata is not fixed by the contract.
retrieve_chunks(st, query_embedding, top_k, similarity_threshold, searchRaises, fault, scoresAttached) ==
    LET found == search_similar(st.index, query_embedding, top_k, searchRaises)
        candidates ==
            IF found # <<>>
            THEN [i \in 1..Len(found) |->
                    [key |-> found[i].chunk_id, score |-> found[i].score]]
            ELSE LET scan == _perform_database_similarity_search(st.chunks, query_embedding,
                                                                 top_k)
                 IN [i \in 1..Len(scan) |-> [key |-> scan[i].id, score |-> scan[i].score]]
        surviving == SeqFilter(LAMBDA c : ScoreGE(c.score, similarity_threshold), candidates)
        Resolve(c) == SeqFilter(LAMBDA row : row.id = c.key \/ row.chunk_hash = c.key,
                                st.chunks)
        resolved == SeqFilter(LAMBDA c : Resolve(c) # <<>>, surviving)
    IN IF fault # "none" THEN [raised |-> TRUE, chunks |-> <<>>]
       ELSE [raised |-> FALSE,
             chunks |-> [i \in 1..Len(resolved) |->
                            [row |-> Head(Resolve(resolved[i])),
                             similarity_score |-> IF scoresAttached THEN resolved[i].score
                                                  ELSE ZeroScore]]]

_generate_answer_from_context(question, context) ==
    AnswerIntro \o Take(question, QuestionPreviewLen) \o AnswerMiddle
    \o Take(context, ContextPreviewLen) \o Ellipsis

RECURSIVE MaxScore(_)
MaxScore(scores) ==
    IF Len(scores) = 1 THEN scores[1]
    ELSE LET m == MaxScore(Tail(scores))
         IN IF ScoreGreater(m, Head(scores)) THEN m ELSE Head(scores)

process_query(st, question, top_k, similarity_threshold, searchRaises, fault, scoresAttached) ==
    LET query_embedding == embed_text(question)
        r == retrieve_chunks(st, query_embedding, top_k, similarity_threshold,
                             searchRaises, fault, scoresAttached)
        retrieved_chunks == [i \in 1..Len(r.chunks) |-> r.chunks[i].row]
        max_similarity == MaxScore([i \in 1..Len(r.chunks) |-> r.chunks[i].similarity_score])
        built == build_context_with_citations(retrieved_chunks)
        answer == _generate_answer_from_context(question, built.context)
    IN IF r.raised
       THEN [op |-> "process_query", raised |-> TRUE]
       ELSE IF retrieved_chunks = <<>>
       THEN [op |-> "process_query", raised |-> FALSE,
             answer |-> generate_refusal_response("insufficient_context"),
             citations |-> <<>>, retrieved |-> 0, was_refused |-> TRUE,
             refusal_reason |-> "no_relevant_chunks_found", generation_called |-> FALSE]
       ELSE IF ScoreLT(max_similarity, similarity_threshold)
       THEN [op |-> "process_query", raised |-> FALSE,
             answer |-> generate_refusal_response("low_confidence"),
             citations |-> <<>>, retrieved |-> Len(retrieved_chunks), was_refused |-> TRUE,
             refusal_reason |-> "low_confidence_results", generation_called |-> FALSE,
             context |-> <<>>]
       ELSE IF is_context_insufficient(built.context)
       THEN [op |-> "process_query", raised |-> FALSE,
             answer |-> generate_refusal_response("insufficient_context"),
             citations |-> built.citations, retrieved |-> Len(retrieved_chunks),
             was_refused |-> TRUE,
             refusal_reason |-> "insufficient_context_after_retrieval",
             generation_called |-> FALSE, context |-> built.context]
       ELSE IF ~is_answer_properly_grounded(answer, built.context)
       THEN [op |-> "process_query", raised |-> FALSE,
             answer |-> generate_refusal_response("not_properly_grounded"),
             citations |-> built.citations, retrieved |-> Len(retrieved_chunks),
             was_refused |-> TRUE, refusal_reason |-> "answer_not_properly_grounded",
             generation_called |-> TRUE, context |-> built.context,
             candidate |-> answer, grounding_context |-> built.context]
       ELSE [op |-> "process_query", raised |-> FALSE,
             answer |-> answer,
             citations |-> built.citations, retrieved |-> Len(retrieved_chunks),
             was_refused |-> FALSE, refusal_reason |-> "None",
             generation_called |-> TRUE, context |-> built.context,
             candidate |-> answer, grounding_context |-> built.context]

LlmAnswers == {<<"H", "e", "l", "l", "o">>, <<"o", "n">>, <<"z", "z">>, <<>>}

LlmOutcomes ==
    {[raises |-> TRUE, text |-> <<>>]} \cup {[raises |-> FALSE, text |-> t] : t \in LlmAnswers}

Questions == {<<"x">>, <<"a">>, <<" ">>}
TopKs == 1..MaxTopK
Thresholds == {5, 9}
Faults == {"none", "embedding", "database"}
\* "attribute": the lookup of retrieve_chunks on the retrieval service fails.
QueryFaults == Faults \cup {"attribute"}

(***************************************************************************)
(* Ingestion jobs (app/services/ingestion_job_service.py).  A job is a row *)
(* [id, status, progress, total_chunks, processed_chunks, error_message];  *)
(* document_id and job_metadata, which no operation reads back, are left   *)
(* out.                                                                    *)
(***************************************************************************)
valid_statuses == {"pending", "processing", "completed", "failed"}

\* Python's int(x) of the quotient a/b, b > 0: truncation toward zero.
TruncDiv(a, b) == IF a >= 0 THEN a \div b ELSE -((-a) \div b)

\* The (processed, total) pairs among the inputs below whose double-precision
\* product falls under the exact integer: (29 / 50) * 100 = 57.99999999999999.
FloatShortfall == {<<29, 50>>}

\* int((processed_chunks / total_chunks) * 100) in double precision.
int_percent(processed_chunks, total_chunks) ==
    IF <<processed_chunks, total_chunks>> \in FloatShortfall
    THEN TruncDiv(processed_chunks * 100, total_chunks) - 1
    ELSE TruncDiv(processed_chunks * 100, total_chunks)

get_ingestion_job_by_id(js, job_id) == {j \in js : j.id = job_id}

create_ingestion_job(js, nid, status, total_chunks) ==
    IF status \notin valid_statuses
    THEN [raised |-> TRUE, jobs |-> js, nextId |-> nid]
    ELSE IF total_chunks # None /\ ValueOf(total_chunks) < 0
    THEN [raised |-> TRUE, jobs |-> js, nextId |-> nid]
    ELSE [raised |-> FALSE,
          jobs |-> js \cup {[id |-> uuid4(nid), status |-> status, progress |-> 0,
                             total_chunks |-> total_chunks, processed_chunks |-> 0,
                             error_message |-> None]},
          nextId |-> nid + 1]

\* kwargs is a record of the four keyword arguments used by the callers, each
\* absent (None) or given (Some(value)).  A ValueError leaves the loop before
\* the commit, so the stored row keeps all its values.
update_ingestion_job(js, job_id, kwargs) ==
    LET found == get_ingestion_job_by_id(js, job_id)
        job == CHOOSE j \in found : TRUE
        invalid ==
            \/ kwargs.status # None /\ ValueOf(kwargs.status) \notin valid_statuses
            \/ kwargs.progress # None
                  /\ (ValueOf(kwargs.progress) < 0 \/ ValueOf(kwargs.progress) > 100)
            \/ kwargs.total_chunks # None /\ ValueOf(kwargs.total_chunks) # None
                  /\ ValueOf(ValueOf(kwargs.total_chunks)) < 0
        updated ==
            [job EXCEPT
                !.status = IF kwargs.status # None THEN ValueOf(kwargs.status) ELSE @,
                !.progress = IF kwargs.progress # None THEN ValueOf(kwargs.progress) ELSE @,
                !.total_chunks = IF kwargs.total_chunks # None
                                 THEN ValueOf(kwargs.total_chunks) ELSE @,
                !.error_message = IF kwargs.error_message # None
                                  THEN ValueOf(kwargs.error_message) ELSE @]
    IN IF found = {} THEN [raised |-> FALSE, found |-> FALSE, jobs |-> js]
       ELSE IF invalid THEN [raised |-> TRUE, found |-> TRUE, jobs |-> js]
       ELSE [raised |-> FALSE, found |-> TRUE, jobs |-> (js \ found) \cup {updated}]

NoKwargs == [status |-> None, progress |-> None, total_chunks |-> None,
             error_message |-> None]

delete_ingestion_job(js, job_id) == {j \in js : j.id # job_id}

update_job_progress(js, job_id, processed_chunks, total_chunks) ==
    LET found == get_ingestion_job_by_id(js, job_id)
        job == CHOOSE j \in found : TRUE
        total == IF total_chunks # None THEN total_chunks ELSE job.total_chunks
        progress == IF total # None /\ ValueOf(total) # 0 /\ ValueOf(total) > 0
                    THEN Min(100, int_percent(processed_chunks, ValueOf(total)))
                    ELSE 0
    IN IF found = {} THEN js
       ELSE (js \ found) \cup {[job EXCEPT !.processed_chunks = processed_chunks,
                                            !.total_chunks = total,
                                            !.progress = progress]}

mark_job_completed(js, job_id) ==
    update_ingestion_job(js, job_id,
        [NoKwargs EXCEPT !.status = Some("completed"), !.progress = Some(100)])

mark_job_failed(js, job_id, error_message) ==
    update_ingestion_job(js, job_id,
        [NoKwargs EXCEPT !.status = Some("failed"),
                         !.error_message = Some(Some(error_message))])

\* The inputs of the job operations.
StatusInputs == valid_statuses \cup {"bogus"}
TotalInputs == {None, Some(0), Some(2), Some(50)}
ProcessedInputs == {-1, 1, 29}
ErrorMessages == {"boom"}
KwargsInputs ==
    {[NoKwargs EXCEPT !.status = Some(s)] : s \in StatusInputs}
    \cup {[NoKwargs EXCEPT !.progress = Some(v)] : v \in {-1, 50, 101}}
    \cup {[NoKwargs EXCEPT !.total_chunks = Some(t)] : t \in {None, Some(-1), Some(2)}}
    \cup {[NoKwargs EXCEPT !.error_message = Some(m)] : m \in {None, Some("boom")}}
    \cup {[NoKwargs EXCEPT !.status = Some("processing"), !.progress = Some(101)]}
JobIds == {uuid4(n) : n \in 1..MaxJobs}

(***************************************************************************)
(* Actions                                                                  *)
(***************************************************************************)
\* The environment rewrites a source file.
EditFile ==
    \E p \in Paths, c \in Contents :
        /\ files[p] # c
        /\ files' = [files EXCEPT ![p] = c]
        /\ last' = [op |-> "edit", path |-> p]
        /\ UNCHANGED <<documents, chunks, index, nextId, messages, jobs, workers>>

ProcessDocument ==
    \E p \in Paths, embedFail \in EmbedFailures, upFail \in UpsertFailures :
        LET r == process_document(CurrentStore, p, files[p], embedFail, upFail)
        IN /\ SetStore(r.st)
           /\ last' = [op |-> "process_document", path |-> p, raised |-> r.raised,
                       error |-> r.error, chunk_models |-> r.chunk_models,
                       skipped |-> r.skipped, upsert_failed |-> r.upsert_failed]
           /\ UNCHANGED <<files, messages, jobs, workers>>

RunIngestionPipeline ==
    \E order \in ScanOrders, embedFail \in [Paths -> EmbedFailures],
       upFail \in UpsertFailures :
        LET r == run_ingestion_pipeline(CurrentStore, files, order, embedFail, upFail)
        IN /\ SetStore(r.st)
           /\ last' = [op |-> "run_ingestion_pipeline", order |-> order, results |-> r.results]
           /\ UNCHANGED <<files, messages, jobs, workers>>

RunIncrementalIngestion ==
    \E order \in ScanOrders, embedFail \in [Paths -> EmbedFailures],
       upFail \in UpsertFailures :
        LET r == run_incremental_ingestion(CurrentStore, files, order, embedFail, upFail)
        IN /\ SetStore(r.st)
           /\ last' = [op |-> "run_incremental_ingestion", order |-> order, results |-> r.results]
           /\ UNCHANGED <<files, messages, jobs, workers>>

PopulateQdrant ==
    \E failed \in SUBSET (1..Len(chunks)) :
        LET st == populate_qdrant_from_db(CurrentStore, failed)
        IN /\ chunks # <<>>
           /\ SetStore(st)
           /\ last' = [op |-> "populate_qdrant"]
           /\ UNCHANGED <<files, messages, jobs, workers>>

RetrieveAndRankChunks ==
    \E question \in Questions, top_k \in TopKs, threshold \in Thresholds,
       searchRaises \in BOOLEAN, fault \in Faults :
        LET r == retrieve_and_rank_chunks(CurrentStore, question, top_k, threshold,
                                          searchRaises, fault)
        IN /\ last' = IF r.raised
                      THEN [op |-> "retrieve_and_rank_chunks", raised |-> TRUE]
                      ELSE [op |-> "retrieve_and_rank_chunks", raised |-> FALSE,
                            question |-> question, top_k |-> top_k,
                            threshold |-> threshold, searchRaises |-> searchRaises,
                            search_results |-> r.search_results, chunks |-> r.chunks]
           /\ UNCHANGED <<files, documents, chunks, index, nextId, messages, jobs, workers>>

ProcessChatQuery ==
    \E message \in Questions, top_k \in TopKs, threshold \in Thresholds,
       searchRaises \in BOOLEAN, fault \in Faults, llm \in LlmOutcomes :
        LET r == process_chat_query(CurrentStore, message, top_k, threshold,
                                    searchRaises, fault, llm)
        IN /\ Len(messages) + 2 <= MaxMessages
           /\ last' = r
           /\ messages' = messages \o <<[role |-> "user", content |-> message],
                                        [role |-> "assistant", content |-> r.answer]>>
           /\ UNCHANGED <<files, documents, chunks, index, nextId, jobs, workers>>

ProcessQuery ==
    \E question \in Questions, top_k \in TopKs, threshold \in Thresholds,
       searchRaises \in BOOLEAN, fault \in QueryFaults, scoresAttached \in BOOLEAN :
        /\ last' = process_query(CurrentStore, question, top_k, threshold,
                                 searchRaises, fault, scoresAttached)
        /\ UNCHANGED <<files, documents, chunks, index, nextId, messages, jobs, workers>>

\* One call of the module-level chunk_document; the call before it is kept
\* for comparison.
(***************************************************************************)
(* process_document run by one worker per file, the workers interleaved at *)
(* the database and index calls: each call is one committed transaction.   *)
(* A worker is [pc, document, i]: its position, the Document it created    *)
(* and the number of the chunk it works on.                                 *)
(***************************************************************************)
WorkerCreated(w) == ValueOf(w.document)

WorkerChunks(w) ==
    chunk_document(WorkerCreated(w).content, WorkerCreated(w).id)

\* checksum = calculate_sha256(content); find_by_checksum; return if found.
WorkerLookup ==
    \E p \in Paths :
        /\ workers[p].pc = "lookup"
        /\ workers' = [workers EXCEPT ![p].pc =
                IF find_by_checksum(documents, calculate_sha256(files[p])) # {}
                THEN "done" ELSE "create"]
        /\ last' = [op |-> "worker_lookup", path |-> p]
        /\ UNCHANGED <<files, documents, chunks, index, nextId, messages, jobs>>

\* document_repo.create and chunk_document.
WorkerCreate ==
    \E p \in Paths :
        LET created == create_document(CurrentStore, p, calculate_sha256(files[p]),
                                       extract_text_with_frontmatter(files[p]))
            w == [pc |-> "chunk", document |-> Some(created.document), i |-> 1]
        IN /\ workers[p].pc = "create"
           /\ SetStore(created.st)
           /\ workers' = [workers EXCEPT ![p] =
                   IF created.raised THEN [workers[p] EXCEPT !.pc = "done"]
                   ELSE IF WorkerChunks(w) = <<>> THEN [w EXCEPT !.pc = "done"]
                   ELSE w]
           /\ last' = [op |-> "worker_create", path |-> p]
           /\ UNCHANGED <<files, messages, jobs>>

\* compute_embedding and chunk_repo.create for chunk i.
WorkerPersistChunk ==
    \E p \in Paths :
        LET w == workers[p]
            chunk == WorkerChunks(w)[w.i]
        IN /\ w.pc = "chunk"
           /\ SetStore(create_chunk(CurrentStore, WorkerCreated(w).id, chunk.index,
                                    chunk.content, chunk.id, embed_text(chunk.content)))
           /\ workers' = [workers EXCEPT ![p].pc = "upsert"]
           /\ last' = [op |-> "worker_persist_chunk", path |-> p]
           /\ UNCHANGED <<files, messages, jobs>>

\* qdrant_service.upsert_point for chunk i, then the next chunk.
WorkerUpsert ==
    \E p \in Paths :
        LET w == workers[p]
            chunk == WorkerChunks(w)[w.i]
            payload == [document_id |-> WorkerCreated(w).id,
                        source_path |-> WorkerCreated(w).source_path,
                        chunk_index |-> chunk.index, content |-> chunk.content]
        IN /\ w.pc = "upsert"
           /\ index' = upsert_point(index, chunk.id, embed_text(chunk.content), payload)
           /\ workers' = [workers EXCEPT ![p] =
                   IF w.i = Len(WorkerChunks(w)) THEN [w EXCEPT !.pc = "done"]
                   ELSE [w EXCEPT !.pc = "chunk", !.i = w.i + 1]]
           /\ last' = [op |-> "worker_upsert", path |-> p]
           /\ UNCHANGED <<files, documents, chunks, nextId, messages, jobs>>

(***************************************************************************)
(* The while loop of DocumentChunker.chunk_document taken one iteration at *)
(* a time.  The loop state is [content, doc_id, chunk_size, chunk_overlap, *)
(* start_idx, chunk_idx, chunks], with from_idx and end_idx the bounds of  *)
(* the chunk emitted last.                                                  *)
(***************************************************************************)
LoopContents ==
    ChunkerContents
    \cup {<<"a", "b", "c", "d", "e", "f", "g", "h">>,
          <<"a", ".", " ">> \o LongText("b"),
          <<"a", "?", "b", " ", "c", "!", " ", "d", "e", " ", "f">>,
          <<".", "a", "b", "c", "d", "e", "f", "g", "h">>,
          Take(LongText("b"), 10) \o <<".">> \o LongText("b")}
LoopChunkSizes == {0, 1, 3, 5, LookBack + 10}
LoopChunkOverlaps == {0, 1, 7}

ChunkLoopStart(content, doc_id, chunk_size, chunk_overlap) ==
    LET self == DocumentChunker(chunk_size, chunk_overlap)
    IN [op |-> "chunking", content |-> content, doc_id |-> doc_id,
        chunk_size |-> self.chunk_size, chunk_overlap |-> self.chunk_overlap,
        start_idx |-> 0, chunk_idx |-> 0, chunks |-> <<>>,
        from_idx |-> 0, end_idx |-> 0]

\* The loop has left: empty content, or the cursor at the end or beyond.
ChunkLoopDone(loop) == loop.content = <<>> \/ loop.start_idx >= Len(loop.content)

ChunkLoopStep ==
    /\ last.op = "chunking"
    /\ ~ChunkLoopDone(last)
    /\ LET end_idx == ChunkEnd(last.content, last.start_idx, last.chunk_size)
           chunk_content == Slice(last.content, last.start_idx, end_idx)
           chunk == [content |-> chunk_content, index |-> last.chunk_idx,
                     id |-> _generate_chunk_id(chunk_content, last.doc_id, last.chunk_idx)]
       IN last' = [last EXCEPT !.chunks = Append(@, chunk),
                               !.from_idx = last.start_idx,
                               !.end_idx = end_idx,
                               !.start_idx = NextStart(end_idx, last.chunk_overlap),
                               !.chunk_idx = @ + 1]
    /\ UNCHANGED <<files, documents, chunks, index, nextId, messages, jobs, workers>>

ChunkDocument ==
    \E content \in ChunkerContents, doc_id \in ChunkerDocIds,
       chunk_size \in ChunkSizes, chunk_overlap \in ChunkOverlaps :
        LET call == [content |-> content, doc_id |-> doc_id, chunk_size |-> chunk_size,
                     chunk_overlap |-> chunk_overlap,
                     chunks |-> chunk_document_sized(content, doc_id, chunk_size,
                                                     chunk_overlap)]
        IN /\ last' = [op |-> "chunk_document", call |-> call,
                       previous |-> IF last.op = "chunk_document" THEN last.call ELSE call]
           /\ UNCHANGED <<files, documents, chunks, index, nextId, messages, jobs, workers>>

\* The scan applied to the store and the query drawn at the start.
PerformDatabaseSimilaritySearch ==
    /\ last.op = "scan_input"
    /\ last' = [op |-> "_perform_database_similarity_search",
                n |-> last.n, hot |-> last.hot,
                query_vector |-> last.query_vector, top_k |-> last.top_k,
                results |-> _perform_database_similarity_search(
                                ScanStore(last.n, last.hot), last.query_vector, last.top_k)]
    /\ UNCHANGED <<files, documents, chunks, index, nextId, messages, jobs, workers>>

FormatCitationsFromChunks ==
    \E context_chunks \in CitationChunkLists :
        /\ last' = [op |-> "format_citations_from_chunks",
                    context_chunks |-> context_chunks,
                    citations |-> format_citations_from_chunks(context_chunks)]
        /\ UNCHANGED <<files, documents, chunks, index, nextId, messages, jobs, workers>>

GenerateAnswerWithContext ==
    \E context_chunks \in CitationChunkLists, llmAnswer \in {<<>>, <<"o", "n">>} :
        LET r == generate_answer_with_context(context_chunks, llmAnswer)
        IN /\ last' = [op |-> "generate_answer_with_context",
                       context_chunks |-> context_chunks,
                       answer |-> r.answer, citations |-> r.citations]
           /\ UNCHANGED <<files, documents, chunks, index, nextId, messages, jobs, workers>>

ShouldRefuseToAnswer ==
    \E context \in GuardContexts, results \in GuardResults, threshold \in GuardThresholds :
        LET r == should_refuse_to_answer(context, results, threshold)
        IN /\ last' = [op |-> "should_refuse_to_answer", context |-> context,
                       results |-> results, threshold |-> threshold,
                       should_refuse |-> r.should_refuse, reason |-> r.reason]
           /\ UNCHANGED <<files, documents, chunks, index, nextId, messages, jobs, workers>>

IsAnswerProperlyGrounded ==
    \E answer \in GroundingAnswers, context \in GroundingContexts :
        /\ last' = [op |-> "is_answer_properly_grounded", answer |-> answer,
                    context |-> context,
                    grounded |-> is_answer_properly_grounded(answer, context)]
        /\ UNCHANGED <<files, documents, chunks, index, nextId, messages, jobs, workers>>

ValidateResponseAgainstContext ==
    \E response \in GuardResponses, context \in GuardContexts,
       retrieval_results \in GuardResults :
        /\ last' = [op |-> "validate_response_against_context", response |-> response,
                    context |-> context, retrieval_results |-> retrieval_results,
                    report |-> validate_response_against_context(response, context,
                                                                 retrieval_results)]
        /\ UNCHANGED <<files, documents, chunks, index, nextId, messages, jobs, workers>>

CreateIngestionJob ==
    \E status \in StatusInputs, total_chunks \in TotalInputs \cup {Some(-1)} :
        LET r == create_ingestion_job(jobs, nextId, status, total_chunks)
        IN /\ nextId <= MaxJobs
           /\ jobs' = r.jobs
           /\ nextId' = r.nextId
           /\ last' = [op |-> "create_ingestion_job", raised |-> r.raised]
           /\ UNCHANGED <<files, documents, chunks, index, messages, workers>>

UpdateIngestionJob ==
    \E job_id \in JobIds, kwargs \in KwargsInputs :
        LET r == update_ingestion_job(jobs, job_id, kwargs)
        IN /\ jobs' = r.jobs
           /\ last' = [op |-> "update_ingestion_job", job_id |-> job_id,
                       found |-> r.found, raised |-> r.raised]
           /\ UNCHANGED <<files, documents, chunks, index, nextId, messages, workers>>

DeleteIngestionJob ==
    \E job_id \in JobIds :
        /\ jobs' = delete_ingestion_job(jobs, job_id)
        /\ last' = [op |-> "delete_ingestion_job", job_id |-> job_id,
                    found |-> get_ingestion_job_by_id(jobs, job_id) # {}]
        /\ UNCHANGED <<files, documents, chunks, index, nextId, messages, workers>>

UpdateJobProgress ==
    \E job_id \in JobIds, processed_chunks \in ProcessedInputs,
       total_chunks \in TotalInputs :
        /\ jobs' = update_job_progress(jobs, job_id, processed_chunks, total_chunks)
        /\ last' = [op |-> "update_job_progress", job_id |-> job_id,
                    found |-> get_ingestion_job_by_id(jobs, job_id) # {},
                    processed_chunks |-> processed_chunks]
        /\ UNCHANGED <<files, documents, chunks, index, nextId, messages, workers>>

MarkJobCompleted ==
    \E job_id \in JobIds :
        LET r == mark_job_completed(jobs, job_id)
        IN /\ jobs' = r.jobs
           /\ last' = [op |-> "mark_job_completed", job_id |-> job_id,
                       found |-> r.found, raised |-> r.raised]
           /\ UNCHANGED <<files, documents, chunks, index, nextId, messages, workers>>

MarkJobFailed ==
    \E job_id \in JobIds, error_message \in ErrorMessages :
        LET r == mark_job_failed(jobs, job_id, error_message)
        IN /\ jobs' = r.jobs
           /\ last' = [op |-> "mark_job_failed", job_id |-> job_id,
                       found |-> r.found, raised |-> r.raised]
           /\ UNCHANGED <<files, documents, chunks, index, nextId, messages, workers>>

Init ==
    /\ files = [p \in Paths |-> IF p = "a.md" THEN ContentHello ELSE ContentWords]
    /\ documents = {}
    /\ chunks = <<>>
    /\ index = <<>>
    /\ nextId = 1
    /\ messages = <<>>
    /\ jobs = {}
    /\ workers = [p \in Paths |-> IdleWorker]
    /\ last = [op |-> "init"]

Next ==
    \/ EditFile
    \/ ProcessDocument
    \/ RunIngestionPipeline
    \/ RunIncrementalIngestion

Spec == Init /\ [][Next]_vars

NextRetrieval ==
    \/ ProcessDocument
    \/ PopulateQdrant
    \/ RetrieveAndRankChunks

RetrievalSpec == Init /\ [][NextRetrieval]_vars

NextQuery ==
    \/ ProcessDocument
    \/ ProcessChatQuery
    \/ ProcessQuery

QuerySpec == Init /\ [][NextQuery]_vars

NextJob ==
    \/ CreateIngestionJob
    \/ UpdateIngestionJob
    \/ DeleteIngestionJob
    \/ UpdateJobProgress
    \/ MarkJobCompleted
    \/ MarkJobFailed

JobSpec == Init /\ [][NextJob]_vars

NextGuard ==
    \/ ShouldRefuseToAnswer
    \/ IsAnswerProperlyGrounded
    \/ ValidateResponseAgainstContext

GuardSpec == Init /\ [][NextGuard]_vars

ScanInit ==
    /\ files = [p \in Paths |-> IF p = "a.md" THEN ContentHello ELSE ContentWords]
    /\ documents = {}
    /\ chunks = <<>>
    /\ index = <<>>
    /\ nextId = 1
    /\ messages = <<>>
    /\ jobs = {}
    /\ workers = [p \in Paths |-> IdleWorker]
    /\ \E shape \in ScanStoreShapes, query_vector \in ScanQueries, top_k \in TopKs :
          last = [op |-> "scan_input", n |-> shape.n, hot |-> shape.hot,
                  query_vector |-> query_vector, top_k |-> top_k]

\* Every file holds some content of the corpus, the store is empty and one
\* worker per file is about to call process_document.
ConcurrentInit ==
    /\ files \in [Paths -> Contents]
    /\ documents = {}
    /\ chunks = <<>>
    /\ index = <<>>
    /\ nextId = 1
    /\ messages = <<>>
    /\ jobs = {}
    /\ workers = [p \in Paths |-> [IdleWorker EXCEPT !.pc = "lookup"]]
    /\ last = [op |-> "init"]

NextConcurrent ==
    \/ WorkerLookup
    \/ WorkerCreate
    \/ WorkerPersistChunk
    \/ WorkerUpsert

ConcurrentSpec == ConcurrentInit /\ [][NextConcurrent]_vars

ChunkLoopInit ==
    /\ files = [p \in Paths |-> IF p = "a.md" THEN ContentHello ELSE ContentWords]
    /\ documents = {}
    /\ chunks = <<>>
    /\ index = <<>>
    /\ nextId = 1
    /\ messages = <<>>
    /\ jobs = {}
    /\ workers = [p \in Paths |-> IdleWorker]
    /\ \E content \in LoopContents, chunk_size \in LoopChunkSizes,
          chunk_overlap \in LoopChunkOverlaps :
          last = ChunkLoopStart(content, "doc-1", chunk_size, chunk_overlap)

NextChunkLoop == ChunkLoopStep

\* The loop runs on while it has not left.
ChunkLoopSpec == ChunkLoopInit /\ [][NextChunkLoop]_vars /\ WF_vars(ChunkLoopStep)

NextScan == PerformDatabaseSimilaritySearch

ScanSpec == ScanInit /\ [][NextScan]_vars

NextCitation ==
    \/ FormatCitationsFromChunks
    \/ GenerateAnswerWithContext

CitationSpec == Init /\ [][NextCitation]_vars

NextChunker == ChunkDocument

ChunkerSpec == Init /\ [][NextChunker]_vars

(***************************************************************************)
(* Properties of ingestion (checked under Spec)                             *)
(***************************************************************************)
DocsWithChecksum(docs, checksum) == {d \in docs : d.checksum = checksum}

RowsOf(chs, doc_id) == SeqFilter(LAMBDA c : c.document_id = doc_id, chs)

\* C1: once a Document exists for a file's content, any further ingestion
\* step run with the file unchanged leaves exactly that one Document for the
\* content and exactly its original Chunk rows.
C1_IdempotentReingestion ==
    [][\A p \in Paths :
        LET checksum == calculate_sha256(files[p])
            before == DocsWithChecksum(documents, checksum)
        IN (files'[p] = files[p] /\ before # {})
           => /\ DocsWithChecksum(documents', checksum) = before
              /\ Cardinality(before) = 1
              /\ \A d \in before : RowsOf(chunks', d.id) = RowsOf(chunks, d.id)]_vars

\* An incremental run that met already ingested content and skipped it.
C1_Witness ==
    /\ last.op = "run_incremental_ingestion"
    /\ last.results.skipped_documents >= 1
    /\ chunks # <<>>

(***************************************************************************)
(* Properties of retrieval (checked under RetrievalSpec)                    *)
(***************************************************************************)
Retrieved == last.op = "retrieve_and_rank_chunks" /\ ~last.raised

CandidateIndexes == 1..Len(last.search_results)

\* C2: when some candidate reaches the threshold the result is not empty, and
\* every candidate identifier is the identifier of a Chunk row.
C2_CandidatesResolve ==
    (Retrieved /\ \E i \in CandidateIndexes :
                     ScoreGE(last.search_results[i].score, last.threshold))
    => /\ last.chunks # <<>>
       /\ \A i \in CandidateIndexes :
            \E j \in 1..Len(chunks) : chunks[j].id = last.search_results[i].id

\* C3: an empty candidate list, or one whose scores are all below the
\* threshold, gives an empty result.
C3_EmptyBelowThreshold ==
    (Retrieved /\ \A i \in CandidateIndexes :
                     ScoreLT(last.search_results[i].score, last.threshold))
    => last.chunks = <<>>

\* Candidates came back from the index, all of them below the threshold.
C3_Witness ==
    /\ Retrieved
    /\ ~last.searchRaises
    /\ index # <<>>
    /\ last.search_results # <<>>
    /\ \A i \in CandidateIndexes : ScoreLT(last.search_results[i].score, last.threshold)
    /\ last.chunks = <<>>

\* C4: every returned chunk belongs to a candidate that reaches the threshold.
C4_OnlySurvivorsReturned ==
    Retrieved
    => \A k \in 1..Len(last.chunks) :
         \E i \in CandidateIndexes :
            /\ last.search_results[i].id = last.chunks[k].id
            /\ ScoreGE(last.search_results[i].score, last.threshold)

Scorable(q) ==
    {j \in 1..Min(Len(chunks), GetAllLimit) :
        Dot(q, q) # 0 /\ Dot(json_loads(chunks[j].vector), json_loads(chunks[j].vector)) # 0}

\* C5: when the index search raises, the candidates are those of the local
\* cosine scan over the stored vectors: at most top_k of them, each a stored
\* chunk with its cosine score, in descending order of score, none better
\* left out.
C5_FallbackScanRanked ==
    (Retrieved /\ last.searchRaises)
    => LET q == embed_text(last.question)
           res == last.search_results
           Score(j) == Cosine(q, json_loads(chunks[j].vector))
       IN /\ Len(res) = Min(last.top_k, Cardinality(Scorable(q)))
          /\ \A i, k \in CandidateIndexes :
                i < k => ~ScoreGreater(res[k].score, res[i].score)
          /\ \A i \in CandidateIndexes :
                \E j \in Scorable(q) : res[i].id = chunks[j].id /\ res[i].score = Score(j)
          /\ \A j \in Scorable(q) :
                (\E i \in CandidateIndexes : res[i].id = chunks[j].id)
                \/ \A i \in CandidateIndexes : ~ScoreGreater(Score(j), res[i].score)

\* The index search raised and the scan ranked two candidates of different score.
C5_Witness ==
    /\ Retrieved
    /\ last.searchRaises
    /\ Len(last.search_results) >= 2
    /\ ScoreGreater(last.search_results[1].score, last.search_results[2].score)

(***************************************************************************)
(* Properties of the query orchestrators (checked under QuerySpec)          *)
(***************************************************************************)
QueryOps == {"process_query", "process_chat_query"}

\* The handler returned a response (it did not raise).
Responded == last.op \in QueryOps /\ ~last.raised

\* The handler returned after retrieval had succeeded.
RetrievalDone == Responded /\ (last.op = "process_chat_query" => ~last.error)

ReasonOf(response) ==
    IF "refusal_reason" \in DOMAIN response THEN response.refusal_reason ELSE "absent"

RefusalTexts == {InsufficientContextText, LowConfidenceText, CannotAnswerText,
                 ChatUngroundedText}

\* C6: when the generated answer is not grounded in the assembled context,
\* the response carries the refusal for ungrounded answers in place of the
\* answer and an empty citations list.
C6_UngroundedRefusedWithoutCitations ==
    (/\ RetrievalDone
     /\ last.generation_called
     /\ ~is_answer_properly_grounded(last.candidate, last.grounding_context))
    => /\ last.answer \in {CannotAnswerText, ChatUngroundedText}
       /\ last.citations = <<>>

\* C7: when retrieval returned chunks and the assembled context is
\* insufficient, the handler refuses without calling answer generation.
C7_InsufficientContextNotGenerated ==
    (/\ RetrievalDone
     /\ last.retrieved > 0
     /\ is_context_insufficient(last.context))
    => /\ ~last.generation_called
       /\ last.answer \in RefusalTexts

C9_RetrievalFailureRefused ==
    last.op \in QueryOps
    => /\ ~last.raised
       /\ last.answer # <<>>
       /\ (last.op = "process_chat_query" /\ last.error) => last.citations = <<>>

RefusalReasons == {"insufficient_context", "low_confidence", "not_properly_grounded",
                   "no_relevant_chunks_found"}

\* C10: the refusal reason of a response is one of the four stable strings,
\* or none when the answer is not refused.
C10_ReasonsInTaxonomy ==
    (Responded /\ ReasonOf(last) # "absent")
    => IF last.was_refused THEN last.refusal_reason \in RefusalReasons
       ELSE last.refusal_reason = "None"

(***************************************************************************)
(* Properties of the ingestion runs (checked under Spec)                    *)
(***************************************************************************)
RunOps == {"run_ingestion_pipeline", "run_incremental_ingestion"}

\* The scanned files whose content already has a Document.
Unchanged(docs, fs) ==
    {p \in Paths : DocsWithChecksum(docs, calculate_sha256(fs[p])) # {}}

\* C11: a run over files whose content is already ingested counts each such
\* file in skipped_documents and not in processed_documents, and when every
\* scanned file is such a file the run creates no chunk.
C11_UnchangedReportedSkipped ==
    [][(last'.op \in RunOps /\ files' = files)
        => LET u == Unchanged(documents, files)
               results == last'.results
           IN /\ results.skipped_documents >= Cardinality(u)
              /\ results.processed_documents <= Cardinality(Paths) - Cardinality(u)
              /\ (u = Paths => results.created_chunks = 0)]_vars

\* C12: a run attempts every scanned file once: a file either raised and is
\* the subject of exactly one entry of errors, or it was handled and its
\* content has a Document, whatever happened to the files before it; the
\* three counters add up to the number of scanned files.
C12_EveryFileAttemptedOnce ==
    last.op \in RunOps
    => LET results == last.results
       IN /\ results.processed_documents + results.skipped_documents
                + Len(results.errors) = Cardinality(Paths)
          /\ \A i, j \in 1..Len(results.errors) :
                results.errors[i] = results.errors[j] => i = j
          /\ \A p \in Paths \ Range(results.errors) :
                DocsWithChecksum(documents, calculate_sha256(files[p])) # {}

\* A run whose first file raised and whose second file was processed.
C12_Witness ==
    /\ last.op \in RunOps
    /\ last.results.errors = <<last.order[1]>>
    /\ last.results.processed_documents = 1
    /\ last.results.created_chunks >= 1

\* The Documents stored under a source path.
DocsAtPath(docs, p) == {d \in docs : d.source_path = p}

\* The paths that hold a Document whose checksum is not that of the file now.
ChangedPaths(docs, fs) ==
    {p \in Paths : /\ DocsAtPath(docs, p) # {}
                   /\ \A d \in DocsAtPath(docs, p) : d.checksum # calculate_sha256(fs[p])}

\* The step ingested path p: a run, or process_document of p.
Reingested(p) ==
    /\ files' = files
    /\ \/ last'.op \in RunOps
       \/ last'.op = "process_document" /\ last'.path = p

\* The step surfaced path p as a conflict.
ConflictSurfaced(p) ==
    \/ last'.op \in RunOps /\ p \in Range(last'.results.errors)
    \/ last'.op = "process_document" /\ last'.error = "IntegrityError"

\* The Documents at path p and their Chunk rows are as before the step.
PathUntouched(p) ==
    /\ DocsAtPath(documents', p) = DocsAtPath(documents, p)
    /\ \A d \in DocsAtPath(documents, p) : RowsOf(chunks', d.id) = RowsOf(chunks, d.id)

\* C13 (as stated): re-ingesting a changed file at an ingested source path
\* always records the conflict and leaves the existing Document and its
\* Chunk rows unchanged.
C13_ChangedFileConflicts ==
    [][\A p \in ChangedPaths(documents, files) :
        Reingested(p) => ConflictSurfaced(p) /\ PathUntouched(p)]_vars

\* C13 (amended): the existing Document and its Chunk rows are always left
\* unchanged, and the conflict is recorded unless a Document with the file's
\* new checksum exists when the file is reached, in which case the file is
\* short-circuited as already ingested content.
C13_ChangedFileNeverMerged ==
    [][\A p \in ChangedPaths(documents, files) :
        Reingested(p)
        => /\ PathUntouched(p)
           /\ \/ ConflictSurfaced(p)
              \/ DocsWithChecksum(documents', calculate_sha256(files[p])) # {}
           /\ ( /\ last'.op = "process_document"
                /\ DocsWithChecksum(documents, calculate_sha256(files[p])) = {} )
              => ConflictSurfaced(p) /\ documents' = documents /\ chunks' = chunks]_vars

\* A run that met a changed file at an ingested path and recorded the
\* conflict, the Document of the path still holding its chunks.
C13_Witness ==
    /\ last.op \in RunOps
    /\ \E p \in ChangedPaths(documents, files) :
          /\ p \in Range(last.results.errors)
          /\ \E d \in DocsAtPath(documents, p) : RowsOf(chunks, d.id) # <<>>

\* The last step was a process_document call that created its Document and
\* met no embedding failure.
DocumentStored ==
    last.op = "process_document" /\ ~last.skipped
        /\ last.error \notin {"IntegrityError", "embedding"}

\* C14: a process_document call that created its Document and whose
\* embeddings succeeded does not raise, whatever upserts failed; it returns
\* one Chunk row per chunk of the document, each persisted with its vector,
\* and every chunk whose upsert did not fail has its point in the index.
C14_UpsertFailureTolerated ==
    DocumentStored
    => \E d \in DocsAtPath(documents, last.path) :
         LET cs == chunk_document(extract_text_with_frontmatter(files[last.path]), d.id)
         IN /\ ~last.raised
            /\ Len(last.chunk_models) = Len(cs)
            /\ \A i \in 1..Len(cs) :
                 LET row == last.chunk_models[i]
                 IN /\ row.document_id = d.id
                    /\ row.chunk_index = cs[i].index
                    /\ row.chunk_text = cs[i].content
                    /\ row.chunk_hash = cs[i].id
                    /\ row.vector = json_dumps(embed_text(cs[i].content))
                    /\ row \in Range(chunks)
                    /\ cs[i].index \notin last.upsert_failed
                       => \E k \in 1..Len(index) :
                            /\ index[k].id = cs[i].id
                            /\ index[k].vector = embed_text(cs[i].content)

\* A two-chunk document whose first upsert failed: both rows are returned
\* and the second chunk is in the index.
C14_Witness ==
    /\ DocumentStored
    /\ Len(last.chunk_models) = 2
    /\ last.upsert_failed = {0}
    /\ \E k \in 1..Len(index) : index[k].id = last.chunk_models[2].chunk_hash

(***************************************************************************)
(* Properties of the ingestion jobs (checked under JobSpec)                 *)
(***************************************************************************)
TerminalStatuses == {"completed", "failed"}

StatusRank(status) ==
    IF status = "pending" THEN 0 ELSE IF status = "processing" THEN 1 ELSE 2

\* C15: no operation moves a job's status backward (processing to pending)
\* or out of a terminal status (completed, failed).
C15_StatusMovesForward ==
    [][\A j \in jobs : \A k \in jobs' :
        (k.id = j.id /\ k.status # j.status)
        => /\ j.status \notin TerminalStatuses
           /\ StatusRank(k.status) > StatusRank(j.status)]_vars

\* C16: every failed job carries an error message.
C16_FailedHasErrorMessage ==
    \A j \in jobs : j.status = "failed" => j.error_message # None

\* C17: after update_job_progress on an existing job, a positive total gives
\* a progress within 0..100 equal to floor(min(100, processed*100/total)),
\* and a null or zero total gives progress 0.
C17_ProgressIsFloorPercent ==
    (last.op = "update_job_progress" /\ last.found)
    => \A j \in get_ingestion_job_by_id(jobs, last.job_id) :
         IF j.total_chunks # None /\ ValueOf(j.total_chunks) > 0
         THEN /\ 0 <= j.progress /\ j.progress <= 100
              /\ j.progress = Min(100, (j.processed_chunks * 100) \div ValueOf(j.total_chunks))
         ELSE j.progress = 0

(***************************************************************************)
(* Properties of the chunker (checked under ChunkerSpec)                    *)
(***************************************************************************)
Chunked == last.op = "chunk_document"

\* The first IdPrefixLen characters of a chunk text.
IdPrefix(chunk) == Take(chunk.content, IdPrefixLen)

NoScoreMeets(results, threshold) ==
    \A i \in 1..Len(results) : ResultScore(results[i]) < threshold

\* C19: should_refuse_to_answer gives insufficient_context whenever the
\* context is insufficient; otherwise low_confidence exactly when no
\* result's score meets the threshold, the empty list included; otherwise
\* it does not refuse.
C19_RefusalReason ==
    last.op = "should_refuse_to_answer"
    => LET t == IF last.threshold = None THEN ConfidenceThreshold
                ELSE ValueOf(last.threshold)
       IN IF is_context_insufficient(last.context)
          THEN last.should_refuse /\ last.reason = "insufficient_context"
          ELSE IF NoScoreMeets(last.results, t)
          THEN last.should_refuse /\ last.reason = "low_confidence"
          ELSE ~last.should_refuse /\ last.reason = ""

\* C20: the report of validate_response_against_context has is_grounded =
\* properly grounded, has_sufficient_context = context not insufficient,
\* has_high_confidence_results = some result's score meets the threshold
\* (false for no results), validation_passed = grounded and not refused.
C20_ValidationReport ==
    last.op = "validate_response_against_context"
    => LET report == last.report
       IN /\ report.is_grounded = is_answer_properly_grounded(last.response, last.context)
          /\ report.has_sufficient_context = ~is_context_insufficient(last.context)
          /\ report.has_high_confidence_results
                = ~NoScoreMeets(last.retrieval_results, ConfidenceThreshold)
          /\ report.validation_passed
                = (report.is_grounded /\ ~report.should_refuse_to_answer)

\* The distinct lowercased words of a text.
LowerWords(text) == WordSet(Lower(text))

\* C21: the answer is grounded exactly when it has a word and at least 30%
\* of its distinct lowercased words are words of the context; so an answer
\* with a word that equals the context is grounded, and an answer that is
\* empty or shares no word with the context is not.
C21_GroundedIffOverlap ==
    last.op = "is_answer_properly_grounded"
    => LET answer_words == LowerWords(last.answer)
           common == answer_words \cap LowerWords(last.context)
       IN /\ last.grounded
                = ( /\ answer_words # {}
                    /\ 10 * Cardinality(common) >= 3 * Cardinality(answer_words) )
          /\ (last.answer = last.context /\ answer_words # {}) => last.grounded
          /\ (common = {} \/ last.answer = <<>>) => ~last.grounded

\* An answer of ten words of which exactly three are in the context.
C21_Witness ==
    /\ last.op = "is_answer_properly_grounded"
    /\ Cardinality(LowerWords(last.answer)) = 10
    /\ Cardinality(LowerWords(last.answer) \cap LowerWords(last.context)) = 3
    /\ last.grounded

\* The sizes a call works with.
EffectiveSizes(call) == DocumentChunker(call.chunk_size, call.chunk_overlap)

\* C22: empty content gives no chunk; non-empty content no longer than the
\* chunk size gives one chunk, of index 0, holding the whole content,
\* whatever the overlap.
C22_SmallContentOneChunk ==
    Chunked
    => LET call == last.call
       IN /\ call.content = <<>> => call.chunks = <<>>
          /\ (call.content # <<>> /\ Len(call.content) <= EffectiveSizes(call).chunk_size)
             => /\ Len(call.chunks) = 1
                /\ call.chunks[1].index = 0
                /\ call.chunks[1].content = call.content

\* A content of exactly chunk_size characters, with a space inside, chunked
\* with no overlap given.
C22_Witness ==
    /\ Chunked
    /\ last.call.chunk_size = Len(last.call.content)
    /\ last.call.chunk_overlap = 0
    /\ \E i \in 1..Len(last.call.content) : last.call.content[i] = " "
    /\ Len(last.call.chunks) = 1

(***************************************************************************)
(* Properties of the citations (checked under CitationSpec)                 *)
(***************************************************************************)
CitationOps == {"format_citations_from_chunks", "generate_answer_with_context"}

\* The snippet of a chunk text: the text itself up to 100 characters, its
\* first 100 characters and an ellipsis beyond.
BoundedSnippet(content) ==
    IF Len(content) <= 100 THEN content ELSE Take(content, 100) \o <<".", ".", ".">>

\* C23: the citations built for the query path are one per chunk, in the
\* order of the chunks, each with the chunk's source path, title and chunk
\* index and a snippet of at most 100 characters of its text, ended by an
\* ellipsis when the text is longer.
C23_CitationsCarryBoundedSnippet ==
    last.op \in CitationOps
    => /\ Len(last.citations) = Len(last.context_chunks)
       /\ \A i \in 1..Len(last.citations) :
            LET chunk == last.context_chunks[i]
                citation == last.citations[i]
            IN /\ citation.source_path = chunk.metadata.source_path
               /\ citation.title = chunk.metadata.title
               /\ citation.chunk_index = chunk.metadata.chunk_index
               /\ citation.snippet = BoundedSnippet(chunk.content)

(***************************************************************************)
(* Properties of the fallback scan taken alone (checked under ScanSpec)     *)
(***************************************************************************)
\* C24: whatever the number of Chunk rows, the scan returns the top_k
\* highest-scoring rows among all the rows that carry a vector: as many as
\* top_k allows, and no row left out scores higher than a row returned.
C24_ScanCoversEveryChunk ==
    last.op = "_perform_database_similarity_search"
    => LET rows == ScanStore(last.n, last.hot)
           q == last.query_vector
           res == last.results
           Score(j) == Cosine(q, json_loads(rows[j].vector))
           scorable == {j \in 1..Len(rows) :
                          Dot(q, q) # 0
                          /\ Dot(json_loads(rows[j].vector), json_loads(rows[j].vector)) # 0}
       IN /\ Len(res) = Min(last.top_k, Cardinality(scorable))
          /\ \A j \in scorable :
                \/ \E i \in 1..Len(res) : res[i].id = rows[j].id
                \/ \A i \in 1..Len(res) : ~ScoreGreater(Score(j), res[i].score)

(***************************************************************************)
(* Properties of concurrent ingestion (checked under ConcurrentSpec)        *)
(***************************************************************************)
\* Documents and Chunk rows without their random identifiers.
DocumentView(docs) == {<<d.source_path, d.checksum, d.content>> : d \in docs}

ChunkView(docs, chs) ==
    UNION {{<<d.source_path, chs[i].chunk_index, chs[i].chunk_text>> :
               i \in {k \in 1..Len(chs) : chs[k].document_id = d.id}} : d \in docs}

\* The store after processing the files one at a time in the given order.
OneAtATime(order) ==
    run_ingestion_pipeline(Store({}, <<>>, <<>>, 1), files, order,
                           [p \in Paths |-> 0], {}).st

\* C25: when all workers have finished, the Documents and Chunk rows are
\* those that processing the files one at a time, in some order, leaves.
C25_InterleavingSerializable ==
    (\A p \in Paths : workers[p].pc = "done")
    => \E order \in ScanOrders :
         /\ DocumentView(documents) = DocumentView(OneAtATime(order).documents)
         /\ ChunkView(documents, chunks)
              = ChunkView(OneAtATime(order).documents, OneAtATime(order).chunks)

CutOver(content, w, full) ==
    LET sent == {i \in w : At(content, i) \in SentenceEnd}
        ws == {i \in w : At(content, i) \in Whitespace}
    IN IF sent # {} THEN SetMax(sent) + 1
       ELSE IF ws # {} THEN SetMax(ws) + 1
       ELSE full

\* The chunk emitted last was not the final one: from s, s + chunk_size is
\* before the end of the content.
NonFinalChunk ==
    /\ last.op = "chunking"
    /\ last.chunk_idx > 0
    /\ last.from_idx + last.chunk_size < Len(last.content)

\* C27: a non-final chunk from s is cut after the sentence end nearest to
\* s + chunk_size among the 50 characters before s + chunk_size that are not
\* before s, else after the nearest whitespace among them, else at
\* s + chunk_size.
C27_CutInLookBackWindow ==
    NonFinalChunk =>
        LET full == last.from_idx + last.chunk_size
        IN last.end_idx =
               CutOver(last.content, Max(full - LookBack, last.from_idx)..(full - 1), full)

\* The same rule over the positions the loops visit: the first position of
\* the window is left out.
C27_CutInVisitedPositions ==
    NonFinalChunk =>
        LET full == last.from_idx + last.chunk_size
        IN last.end_idx =
               CutOver(last.content, (Max(full - LookBack, last.from_idx) + 1)..(full - 1), full)

\* The texts of the chunks one after the other.
RECURSIVE ConcatChunks(_)
ConcatChunks(cs) ==
    IF cs = <<>> THEN <<>>
    ELSE IF Len(cs) = 1 THEN cs[1].content
    ELSE LET half == Len(cs) \div 2
         IN ConcatChunks(SubSeq(cs, 1, half)) \o ConcatChunks(SubSeq(cs, half + 1, Len(cs)))

\* chunk_document has returned for a non-empty content.
ChunkingReturned ==
    /\ last.op = "chunking"
    /\ last.content # <<>>
    /\ ChunkLoopDone(last)

Incomplete(chs, d) == Len(RowsOf(chs, d.id)) < Len(chunk_document(d.content, d.id))

\* C29: while a Document with checksum c is there, chunk rows missing or
\* not, no later step creates or changes a Document with checksum c or a
\* Chunk row of it, and a process_document call on content with checksum c
\* returns without raising, with zero chunks.
C29_IncompleteDocumentShortCircuits ==
    [][\A d \in documents :
        Incomplete(chunks, d)
        => /\ DocsWithChecksum(documents', d.checksum) = {d}
           /\ RowsOf(chunks', d.id) = RowsOf(chunks, d.id)
           /\ (last'.op = "process_document"
                  /\ calculate_sha256(files[last'.path]) = d.checksum)
              => (last'.skipped /\ ~last'.raised /\ last'.chunk_models = <<>>)]_vars

\* A process_document call short-circuited on a Document that has chunk rows
\* missing.
C29_Witness ==
    /\ last.op = "process_document"
    /\ last.skipped
    /\ \E d \in documents :
          /\ d.checksum = calculate_sha256(files[last.path])
          /\ Incomplete(chunks, d)
          /\ RowsOf(chunks, d.id) # <<>>

\* The position of a path in a scan order.
PositionIn(order, p) == CHOOSE k \in 1..Len(order) : order[k] = p

\* C30: the short-circuit goes by content, not by path.  A process_document
\* call on a file whose content has a Document at another path returns that
\* Document's short-circuit and records nothing for the file's path; in a run
\* over two files of the same content where the first one processed gets a
\* Document, the second gets none; and after every step there are no more
\* Documents than distinct contents ingested.
C30_ShortCircuitKeyedByContent ==
    [][ /\ Cardinality(documents') <= Cardinality({d.checksum : d \in documents'})
        /\ (last'.op = "process_document"
               /\ \E d \in documents : /\ d.checksum = calculate_sha256(files[last'.path])
                                        /\ d.source_path # last'.path)
           => /\ last'.skipped
              /\ documents' = documents
              /\ chunks' = chunks
        /\ last'.op \in RunOps
           => \A p \in Paths, q \in Paths :
                 LET checksum == calculate_sha256(files[p])
                 IN (/\ p # q
                     /\ files[p] = files[q]
                     /\ PositionIn(last'.order, p) < PositionIn(last'.order, q)
                     /\ \E d \in documents' \ documents :
                           d.source_path = p /\ d.checksum = checksum)
                    => ~\E d \in documents' :
                           d.source_path = q /\ d.checksum = checksum ]_vars

\* A run without errors over two files of the same content left one Document,
\* at the path processed first.
C30_Witness ==
    /\ last.op \in RunOps
    /\ files["a.md"] = files["b.md"]
    /\ Cardinality(documents) = 1
    /\ \E d \in documents : /\ d.source_path = last.order[1]
                             /\ d.checksum = calculate_sha256(files["b.md"])
    /\ last.results.errors = <<>>
====
